---- MODULE Spec2Model ----
(***************************************************************************)
(* The posts store of the aggregator (class PostsDatabase): an in-memory   *)
(* array of post records backed by one JSON file.                          *)
(*                                                                         *)
(* Time is counted in days.  Text that the code inspects character by     *)
(* character is a sequence of one-character strings.                       *)
(***************************************************************************)
EXTENDS Integers, Sequences, FiniteSets, TLC

\* ------------------------------------------------------------------ bounds
MaxTime == 1

MaxBatch == 2
MaxPage == 3
MaxLimit == 2
MaxInFlight == 2
MaxClients == 1
MaxResponse == 2
MaxSpawns == 2
MaxMillis == 2

\* ------------------------------------------------------------ value domains
\* JavaScript's undefined, for a text field and for a numeric field.
Undefined == <<"undefined">>

NoNumber == -1

\* Math.random() draws.
Rand == {0, 1}

Times == 0..MaxTime

ExtIds == {"t3_a", "gh_42"}

\* The items an adapter hands to the store (the objects built by the fetchers):
\* a forum post without body or comment count, and a repository listing.
RedditItem(rid, t) ==
    [reddit_id |-> rid, title |-> <<"C", "l">>, content |-> Undefined,
     author |-> <<"b", "o">>, subreddit |-> <<"A", "I">>, upvotes |-> 1,
     num_comments |-> NoNumber, created_at |-> t, url |-> "https://reddit.com/r",
     source |-> "reddit"]

GitHubItem(rid, t) ==
    [reddit_id |-> rid, title |-> <<"G", "h">>, content |-> <<"h", "i">>,
     author |-> <<"a", "l">>, subreddit |-> <<"G", "i", "t">>, upvotes |-> 5,
     num_comments |-> 3, created_at |-> t, url |-> "https://github.com/x",
     source |-> "github"]

\* The item fetchHackerNews builds from a hit without story text.
HNItem(rid, t) ==
    [reddit_id |-> rid, title |-> <<"[", "H", "N", "]">>, content |-> <<>>,
     author |-> <<"p", "g">>,
     subreddit |-> <<"H", "a", "c", "k", "e", "r", "N", "e", "w", "s">>,
     upvotes |-> 3, num_comments |-> 0, created_at |-> t,
     url |-> "https://news.ycombinator.com/item", source |-> "hackernews"]

Items ==
    {RedditItem(rid, t) : rid \in ExtIds, t \in Times}
        \cup {GitHubItem(rid, t) : rid \in ExtIds, t \in Times}

Batches == UNION {[1..n -> Items] : n \in 1..MaxBatch}

DaysBackVals == {0, 1}

\* daysBack: 30 in GET /api/posts.
RetentionDays == 30

\* ---------------------------------------------------------------- adapters
\* The item fetchDevTo builds from an article.
DevToItem(rid, t) ==
    [reddit_id |-> rid, title |-> <<"[", "D", "]">>, content |-> <<"a", "i">>,
     author |-> <<"u", "n">>, subreddit |-> <<"D", "e", "v", "T", "o">>,
     upvotes |-> 2, num_comments |-> 0, created_at |-> t,
     url |-> "https://dev.to/a", source |-> "devto"]

\* `anthropic_${idx}_${Date.now()}`
BlogId(idx, t) == "anthropic_" \o ToString(idx) \o "_" \o ToString(t)

\* The item fetchAnthropicBlog builds from the idx-th <item> of the feed.
BlogItem(idx, t) ==
    [reddit_id |-> BlogId(idx, t), title |-> <<"[", "A", "]">>, content |-> <<>>,
     author |-> <<"A", "n">>, subreddit |-> <<"B", "l", "o", "g">>,
     upvotes |-> 9999, num_comments |-> 0, created_at |-> t,
     url |-> "https://www.anthropic.com/news", source |-> "anthropic"]

\* The first entry of getCuratedResources().
CuratedItem(t) ==
    [reddit_id |-> "oc_site", title |-> <<"[", "O", "]">>, content |-> <<"O", "C">>,
     author |-> <<"o", "c">>, subreddit |-> <<"O", "p", "e", "n">>,
     upvotes |-> 9999, num_comments |-> 0, created_at |-> t,
     url |-> "https://openclaw.ai", source |-> "openclaw"]

\* The requests of one fetchAllPosts, in the order their results enter allPosts:
\* the curated list, the blog feed, two search queries each of fetchHackerNews,
\* fetchGitHub and fetchDevTo, and two subreddits of ALL_SUBREDDITS.
FetchUnits == <<"curated", "blog", "hn1", "hn2", "gh1", "gh2", "devto1", "devto2", "r1", "r2">>

UnitNames == {FetchUnits[i] : i \in 1..Len(FetchUnits)}

\* The loops of fetchHackerNews, fetchGitHub and fetchDevTo await one query
\* before they send the next.
AwaitedFirst(u) ==
    CASE u = "hn2" -> {"hn1"}
      [] u = "gh2" -> {"gh1"}
      [] u = "devto2" -> {"devto1"}
      [] OTHER -> {}

\* What the remote side answers to request u made at time t.  Two queries of
\* one source may list the same story, repository or article.
Response(u, t) ==
    CASE u = "curated" -> <<CuratedItem(t)>>
      [] u = "blog" -> <<BlogItem(0, t)>>
      [] u = "hn1" -> <<HNItem("hn_7", t)>>
      [] u = "hn2" -> <<HNItem("hn_7", t + 1), HNItem("hn_8", t)>>
      [] u = "gh1" -> <<GitHubItem("gh_42", t)>>
      [] u = "gh2" -> <<GitHubItem("gh_42", t + 1)>>
      [] u = "devto1" -> <<DevToItem("devto_1", t)>>
      [] u = "devto2" -> <<DevToItem("devto_1", t), DevToItem("devto_2", t)>>
      [] u = "r1" -> <<RedditItem("t3_a", t)>>
      [] u = "r2" -> <<RedditItem("t3_b", t), RedditItem("t3_a", t + 1)>>

Pending == [state |-> "pending", items |-> <<>>]
Failed == [state |-> "failed", items |-> <<>>]
Answered(items) == [state |-> "ok", items |-> items]

\* No fetchAllPosts has been called.
FetchIdle == [phase |-> "idle", units |-> [u \in UnitNames |-> Pending], result |-> <<>>]

\* An adapter that returns nothing at all once one of its requests has failed.
AllOrNothing(units, names) ==
    IF \E i \in 1..Len(names) : units[names[i]].state = "failed" THEN <<>>
    ELSE IF names = <<>> THEN <<>>
    ELSE units[names[1]].items \o
         (IF Len(names) > 1 THEN units[names[2]].items ELSE <<>>)

\* The array an adapter returns: the items of its requests that were answered,
\* in the order of the requests (a failed request contributes nothing).
RECURSIVE AdapterResult(_, _)
AdapterResult(units, names) ==
    IF names = <<>> THEN <<>>
    ELSE units[Head(names)].items \o AdapterResult(units, Tail(names))

\* A filter that keeps the last item of each external id.
RECURSIVE DedupeKeepLast(_, _)
DedupeKeepLast(allPosts, seen) ==
    IF allPosts = <<>> THEN <<>>
    ELSE IF \E i \in 2..Len(allPosts) : allPosts[i].reddit_id = Head(allPosts).reddit_id
         THEN DedupeKeepLast(Tail(allPosts), seen)
         ELSE <<Head(allPosts)>> \o DedupeKeepLast(Tail(allPosts), seen)

\* allPosts.filter with the set seen: an item passes when its reddit_id has not
\* been seen, and is then added to seen.
RECURSIVE Dedupe(_, _)
Dedupe(allPosts, seen) ==
    IF allPosts = <<>> THEN <<>>
    ELSE IF Head(allPosts).reddit_id \in seen
         THEN Dedupe(Tail(allPosts), seen)
         ELSE <<Head(allPosts)>> \o Dedupe(Tail(allPosts), seen \cup {Head(allPosts).reddit_id})

\* The array allPosts of fetchAllPosts.
AllPosts(units) ==
    LET curated == AdapterResult(units, <<"curated">>)
        blog == AdapterResult(units, <<"blog">>)
        hn == AdapterResult(units, <<"hn1", "hn2">>)
        gh == AdapterResult(units, <<"gh1", "gh2">>)
        devto == AdapterResult(units, <<"devto1", "devto2">>)
        redditResults == AdapterResult(units, <<"r1", "r2">>)
    IN  curated \o blog \o hn \o gh \o devto \o redditResults

\* The array uniquePosts of fetchAllPosts.
UniquePosts(units) == Dedupe(AllPosts(units), {})

\* ------------------------------------------------------ fetchSubredditPosts
\* The subreddits fetched in one cycle (two of ALL_SUBREDDITS).
Targets == {"r1", "r2"}

\* retries = 3
Retries == 3

\* The base of Math.pow(3, attempt).
BackoffBase == 3

\* Milliseconds in a second: the factor 1000 of the delay.
MsPerSecond == 1000

RECURSIVE Pow(_, _)
Pow(b, e) == IF e = 0 THEN 1 ELSE b * Pow(b, e - 1)

\* A delay that doubles from one attempt to the next.
BackoffDoubling(attempt) == Pow(2, attempt) * MsPerSecond

\* delay = Math.pow(3, attempt) * 1000
Backoff(attempt) == Pow(BackoffBase, attempt) * MsPerSecond

\* A catch block that lets the error of the last attempt escape: the async timer
\* callback of the target rejects and its resolve is never called.
attemptFailedRejects(r) ==
    IF r.attempt < Retries
    THEN [retry |-> [r EXCEPT !.phase = "waiting", !.delay = Backoff(r.attempt), !.waited = 0],
          unit |-> Pending]
    ELSE [retry |-> [r EXCEPT !.phase = "rejected", !.delay = Backoff(r.attempt)],
          unit |-> Pending]

\* The catch block of fetchSubredditPosts and what becomes of the promise of
\* the target: a timer of Backoff(attempt) while attempts are left, [] returned
\* and resolved after the last one.
attemptFailed(r) ==
    IF r.attempt < Retries
    THEN [retry |-> [r EXCEPT !.phase = "waiting", !.delay = Backoff(r.attempt), !.waited = 0],
          unit |-> Pending]
    ELSE [retry |-> [r EXCEPT !.phase = "returned", !.delay = Backoff(r.attempt),
                              !.ok = FALSE, !.result = <<>>],
          unit |-> Failed]

\* fetchSubredditPosts has not been called for the target.
NotCalled ==
    [phase |-> "idle", attempt |-> 0, requests |-> 0, delay |-> 0, waited |-> 0,
     ok |-> FALSE, result |-> <<>>]

\* ------------------------------------------------------ multi-query adapters
\* The adapters that send several sub-queries one after the other.
MultiQuery == {"hackernews", "github", "devto"}

\* The length of `queries` (of `tags` in fetchDevTo).
Queries == 6

\* The milliseconds of the setTimeout each loop awaits after a sub-query.
DelayMs(a) ==
    CASE a = "hackernews" -> 400
      [] a = "github" -> 500
      [] a = "devto" -> 350

\* No adapter loop is running.
NoLoop == [adapter |-> "none", q |-> 0, phase |-> "idle", gap |-> 0, outcomes |-> <<>>]

\* The catch block of the loops: the warning is logged and the for loop goes on
\* to its next iteration at once, the setTimeout of the try block not reached.
afterFailure(l) ==
    IF l.q < Queries
    THEN [l EXCEPT !.q = @ + 1, !.phase = "requesting", !.gap = 0,
                   !.outcomes = Append(@, "failed")]
    ELSE [l EXCEPT !.phase = "returned", !.outcomes = Append(@, "failed")]

\* --------------------------------------------------------- dashboard client
\* The query parameters the dashboard keeps in state: useState('created_at')
\* for sortBy and useState(1) for page (search, origin and order left at their
\* initial values).
InitialParams == [sortBy |-> "created_at", page |-> 1]

SortKeys == {"created_at", "upvotes"}

\* posts and pagination before any answer: useState([]).
NoAnswer == [sortBy |-> "none", page |-> 0]

\* The component before its first render.
Unmounted ==
    [mounted |-> FALSE, params |-> InitialParams, inflight |-> <<>>,
     shown |-> NoAnswer, error |-> FALSE]

\* The sequence s without its i-th element.
Without(s, i) == SubSeq(s, 1, i - 1) \o SubSeq(s, i + 1, Len(s))

\* fetchPosts() of the render with parameters p: setError(null) and the
\* request is sent.
sendRequest(cl, p) == [cl EXCEPT !.inflight = Append(@, p), !.error = FALSE]

\* The continuation of fetchPosts after its awaits, for the i-th request in
\* flight: setPosts and setPagination with the answer, or setError.
onResponse(cl, i, ok) ==
    IF ok
    THEN [cl EXCEPT !.inflight = Without(@, i), !.shown = cl.inflight[i]]
    ELSE [cl EXCEPT !.inflight = Without(@, i), !.error = TRUE]

\* ---------------------------------------------------------------- scheduler
\* What starts a fetchAllPosts call: startPolling's initial fetch, the poll
\* interval, POST /api/refresh, and the socket event 'request-refresh'.
Triggers == {"startup", "poll", "refresh", "socket"}

\* How the requests of a cycle turn out: every network request failed, the two
\* GitHub queries answered, or only the first GitHub query answered, with a
\* repository last updated RetentionDays ago (fetchGitHub filters nothing by
\* date).
CycleOutcomes == {"failed", "fresh", "old"}

OutcomeUnits(kind, t) ==
    [u \in UnitNames |->
        CASE u = "curated" -> Answered(Response(u, t))
          [] u \in {"gh1", "gh2"} /\ kind = "fresh" -> Answered(Response(u, t))
          [] u = "gh1" /\ kind = "old" -> Answered(Response(u, t - RetentionDays))
          [] OTHER -> Failed]

\* No cycle has completed yet.
NoCycle == [trigger |-> "none", count |-> 0, events |-> <<>>]

\* The server before the callback of server.listen has run.
NotListening ==
    [started |-> FALSE, polling |-> "unset", cycles |-> [g \in Triggers |-> 0],
     clients |-> 0, backups |-> {}, done |-> NoCycle]

\* db.backup() on day t: the snapshot of the day is written and
\* cleanOldBackups(30) unlinks the snapshots dated before t - 30.
BackupOn(backups, t) == {d \in backups \cup {t} : ~(d < t - 30)}

\* io.emit('posts-updated', {count: posts.length, ...}) to the connected sockets.
PostsUpdated(uniquePosts, clients) ==
    [event |-> "posts-updated", count |-> Len(uniquePosts), to |-> clients]

\* The forced exit of gracefulShutdown: setTimeout(..., 10000), in seconds.
GraceSeconds == 10

\* POLL_INTERVAL: 300000 ms unless the environment sets another, in seconds.
DefaultPollSeconds == 300

\* A POLL_INTERVAL the environment sets below the grace period.
ShortPollSeconds == 2

PollSeconds == {ShortPollSeconds, DefaultPollSeconds}

\* The running process: no exit code yet, no forced-exit timer armed, and
\* pollLeft seconds to the next firing of the poll interval once it is set.
Running(every) ==
    [state |-> "running", code |-> -1, grace |-> GraceSeconds,
     pollEvery |-> every, pollLeft |-> every, late |-> 0]

\* generateDailyReport(): fs.writeFileSync of the report and log()'s
\* fs.appendFileSync, neither inside a try; an exception they throw leaves the
\* timer callback uncaught and Node ends the process with code 1.
generateDailyReport(p, d) ==
    IF d = "ok" THEN p ELSE [p EXCEPT !.state = "exited", !.code = 1]

\* gracefulShutdown() without its forced-exit timer.
gracefulShutdownNoTimer(p, polling) ==
    [proc |-> [p EXCEPT !.state = "shutting", !.grace = -1],
     polling |-> IF polling = "set" THEN "cleared" ELSE polling]

\* gracefulShutdown(): clear the poll interval if pollInterval is set, close
\* sockets and listener, and arm the forced exit (a second signal arms a
\* second timer, the first one still fires first).
gracefulShutdown(p, polling) ==
    [proc |-> [p EXCEPT !.state = "shutting",
                        !.grace = IF p.state = "shutting" THEN @ ELSE GraceSeconds],
     polling |-> IF polling = "set" THEN "cleared" ELSE polling]

\* ------------------------------------------------------------- web terminal
\* The WebSocket connections the terminal server is followed on.
Conns == {"c1", "c2"}

\* data.token: the configured AUTH_TOKEN, another string, or no token at all.
Tokens == {"secret", "guess", "undefined"}

AUTH_TOKEN == "secret"

\* The messages a client can send: the three types the handler knows, a type
\* it does not know, and text that JSON.parse rejects.
Messages ==
    [type : {"auth"}, token : Tokens]
        \cup [type : {"input", "resize", "ping", "unparseable"}, token : {"undefined"}]

\* No connection yet: before 'connection'.
NoSocket ==
    [ready |-> "none", authenticated |-> FALSE, pty |-> "null", spawned |-> 0,
     killed |-> 0, msg |-> [type |-> "none", token |-> "undefined"], reply |-> "none", wrote |-> "none"]

\* wss.on('connection'): authenticated = false, ptyProcess = null.
Accepted == [NoSocket EXCEPT !.ready = "open"]

\* A handler that accepts whatever token the auth message carries.
onMessageAnyToken(st, m, spawns) ==
    LET got == [st EXCEPT !.msg = m, !.reply = "none", !.wrote = "none"]
    IN  CASE m.type = "unparseable" -> got
          [] m.type = "auth" ->
                [got EXCEPT !.authenticated = TRUE, !.reply = "auth success",
                            !.pty = IF spawns THEN "alive" ELSE @,
                            !.spawned = IF spawns THEN @ + 1 ELSE @]
          [] ~st.authenticated -> [got EXCEPT !.reply = "error"]
          [] m.type \in {"input", "resize"} /\ st.pty # "null" ->
                [got EXCEPT !.wrote = m.type]
          [] OTHER -> got

\* ws.on('message'): the whole handler for one message; spawns tells whether
\* pty.spawn returned a process or threw into the catch block.
onMessage(st, m, spawns) ==
    LET got == [st EXCEPT !.msg = m, !.reply = "none", !.wrote = "none"]
    IN  CASE m.type = "unparseable" -> got
          [] m.type = "auth" /\ m.token = AUTH_TOKEN ->
                [got EXCEPT !.authenticated = TRUE, !.reply = "auth success",
                            !.pty = IF spawns THEN "alive" ELSE @,
                            !.spawned = IF spawns THEN @ + 1 ELSE @]
          [] m.type = "auth" ->
                [got EXCEPT !.reply = "auth failed", !.ready = "closing"]
          [] ~st.authenticated -> [got EXCEPT !.reply = "error"]
          [] m.type \in {"input", "resize"} /\ st.pty # "null" ->
                [got EXCEPT !.wrote = m.type]
          [] OTHER -> got

\* ------------------------------------------------------------------- state
VARIABLES
    posts,   \* this.posts
    file,    \* the contents of the file at this.dbPath
    disk,    \* whether writeFileSync succeeds: "ok" or "full"
    now,     \* the wall clock (new Date(), Date.now())
    last,    \* the last call made on the store: its arguments and what it returned
    fetch,   \* the fetchAllPosts call under way: its requests and what it returned
    retry,   \* the fetchSubredditPosts call of each subreddit: attempt, timer, result
    sys,     \* the server: poll interval, cycles in flight, sockets, backups, broadcasts
    adapt,   \* the response an adapter handled last, and the items it built
    backups, \* backup directory: snapshot date -> snapshot file
    proc,    \* the process: running, shutting down or exited; its timers in seconds
    term,    \* the web terminal: each WebSocket connection's authenticated flag and PTY
    millis,  \* Date.now() in milliseconds, as the blog adapter stamps it into ids
    loop,    \* the sub-query loop of one multi-query adapter
    client   \* the dashboard: selected parameters, requests in flight, what is shown

\* The state of the aggregator around the store.
aggregator == <<fetch, retry, sys, adapt, backups, proc, term, millis, loop, client>>

vars == <<posts, file, disk, now, last, aggregator>>

\* What upsertPost finds at this.posts[index] when findIndex returns -1.
NoPost == [reddit_id |-> "none"]

\* A file holding JSON.stringify(ps).
FileOf(ps) == [parseable |-> TRUE, data |-> ps]

\* A file cut short by a write that failed half-way.
Truncated == [parseable |-> FALSE, data |-> <<>>]

\* The path of a file that does not exist (fs.existsSync is false).
Missing == [exists |-> FALSE]

\* The backup directory as ensureDirectories creates it: no snapshot yet.
NoSnapshots == [d \in {} |-> Truncated]

\* ----------------------------------------------------------------- helpers
\* a || b
OrElse(a, falsy, b) == IF a \in falsy THEN b ELSE a

\* Array.prototype.findIndex from position i on, 1-based; 0 stands for -1.
RECURSIVE FindFrom(_, _, _)
FindFrom(ps, rid, i) ==
    IF i > Len(ps) THEN 0
    ELSE IF ps[i].reddit_id = rid THEN i
    ELSE FindFrom(ps, rid, i + 1)

\* A search that stops one record short of the end.
FindIndexShort(ps, rid) ==
    LET i == FindFrom(ps, rid, 1) IN IF i = Len(ps) THEN 0 ELSE i

\* this.posts.findIndex(p => p.reddit_id === post.reddit_id)
FindIndex(ps, rid) == FindFrom(ps, rid, 1)

\* A save that writes only what the file does not hold yet: nothing, once a
\* file exists.
SaveOnce(ps, f, d) ==
    IF d = "ok" THEN (IF f = Missing THEN FileOf(ps) ELSE f) ELSE Truncated

\* save(): writeFileSync of the whole collection inside try/catch.
Save(ps, f, d) ==
    IF d = "ok" THEN FileOf(ps) ELSE Truncated

\* Date.now().toString(36) + Math.random().toString(36).substr(2)
NewId(t, r) == <<t, r>>

\* --------------------------------------------------------------- upsertPost
\* A surrogate id generated on every upsert.
SurrogateIdAlwaysNew(ps, index, t, r) == NewId(t, r)

\* The id field of postData.
SurrogateId(ps, index, t, r) == IF index > 0 THEN ps[index].id ELSE NewId(t, r)

\* An upvote count that never goes down.
UpvotesHighest(ps, post, index) ==
    IF index > 0 /\ ps[index].upvotes > post.upvotes THEN ps[index].upvotes ELSE post.upvotes

\* The upvotes field of postData.
Upvotes(ps, post, index) == post.upvotes

\* A created_at that keeps the value of the first insertion.
CreatedAtFirstSeen(ps, post, index) ==
    IF index > 0 THEN ps[index].created_at ELSE post.created_at

\* A created_at that keeps the earlier of the stored and the incoming value.
CreatedAtEarliest(ps, post, index) ==
    IF index > 0 /\ ps[index].created_at < post.created_at
    THEN ps[index].created_at ELSE post.created_at

\* The created_at field of postData.
CreatedAt(ps, post, index) == post.created_at

\* A fetched_at that keeps the time of the first insertion.
FetchedAtFirstSeen(ps, index, t) == IF index > 0 THEN ps[index].fetched_at ELSE t

\* The fetched_at field of postData: now.
FetchedAt(ps, index, t) == t

\* The object postData.
PostData(ps, post, index, t, r) ==
    [id |-> SurrogateId(ps, index, t, r),
     reddit_id |-> post.reddit_id,
     title |-> post.title,
     content |-> OrElse(post.content, {Undefined, <<>>}, <<>>),
     author |-> post.author,
     subreddit |-> post.subreddit,
     upvotes |-> Upvotes(ps, post, index),
     num_comments |-> OrElse(post.num_comments, {NoNumber, 0}, 0),
     created_at |-> CreatedAt(ps, post, index),
     fetched_at |-> FetchedAt(ps, index, t),
     url |-> post.url]

\* A record pushed whether or not its external id was found.
PlaceAlwaysPush(ps, index, postData) == Append(ps, postData)

\* this.posts[index] = postData, or this.posts.push(postData)
Place(ps, index, postData) ==
    IF index > 0 THEN [ps EXCEPT ![index] = postData] ELSE Append(ps, postData)

\* upsertPost(post) on collection ps and file f; the result is the new
\* collection, the new file, the value returned and the number of calls of
\* this.save().
upsertPost(ps, f, d, post, t, r) ==
    LET index == FindIndex(ps, post.reddit_id)
        postData == PostData(ps, post, index, t, r)
        after == Place(ps, index, postData)
    IN  [posts |-> after, file |-> Save(after, f, d), ret |-> postData, index |-> index,
         old |-> IF index > 0 THEN ps[index] ELSE NoPost, saves |-> 1]

\* upsertPosts(posts): upsertPost on each item in order.  rs are the values of
\* the Math.random() calls, one for each item that is not yet in the collection
\* (the call sits in the branch of the conditional taken for a new item).
\* results.push(this.upsertPost(post))
PushResult(acc, one) ==
    [posts |-> one.posts, file |-> one.file, ret |-> Append(acc.ret, one.ret),
     saves |-> acc.saves + one.saves]

\* The loop of upsertPosts over the items left.
RECURSIVE UpsertLoop(_, _, _, _, _)
UpsertLoop(acc, d, batch, t, rs) ==
    IF batch = <<>> THEN acc
    ELSE IF FindIndex(acc.posts, Head(batch).reddit_id) = 0
         THEN UpsertLoop(PushResult(acc, upsertPost(acc.posts, acc.file, d, Head(batch), t, Head(rs))),
                         d, Tail(batch), t, Tail(rs))
         ELSE UpsertLoop(PushResult(acc, upsertPost(acc.posts, acc.file, d, Head(batch), t, 0)),
                         d, Tail(batch), t, rs)

upsertPosts(ps, f, d, batch, t, rs) ==
    UpsertLoop([posts |-> ps, file |-> f, ret |-> <<>>, saves |-> 0], d, batch, t, rs)

\* How many Math.random() calls upserting the batch makes.
Draws(ps, batch) ==
    Cardinality({batch[i].reddit_id : i \in 1..Len(batch)}
                    \ {ps[i].reddit_id : i \in 1..Len(ps)})

\* ----------------------------------------------------------- deleteOldPosts
\* cutoffDate: now moved back daysBack days.
CutoffDate(t, daysBack) == t - daysBack

\* A filter that also drops the records created exactly at the cutoff.
KeepRecentStrict(p, t, daysBack) == p.created_at > CutoffDate(t, daysBack)

\* The predicate of the filter in deleteOldPosts.
KeepRecent(p, t, daysBack) == p.created_at >= CutoffDate(t, daysBack)

deleteOldPosts(ps, f, d, t, daysBack) ==
    LET Keep(p) == KeepRecent(p, t, daysBack)
        after == SelectSeq(ps, Keep)
        deleted == Len(ps) - Len(after)
    IN  [posts |-> after,
         file |-> IF deleted > 0 THEN Save(after, f, d) ELSE f,
         ret |-> deleted,
         saves |-> IF deleted > 0 THEN 1 ELSE 0]

\* ----------------------------------------------------------------- getPosts
UpperCase == <<"A", "B", "C", "D", "E", "F", "G", "H", "I", "J", "K", "L", "M",
               "N", "O", "P", "Q", "R", "S", "T", "U", "V", "W", "X", "Y", "Z">>

LowerCase == <<"a", "b", "c", "d", "e", "f", "g", "h", "i", "j", "k", "l", "m",
               "n", "o", "p", "q", "r", "s", "t", "u", "v", "w", "x", "y", "z">>

\* A conversion that leaves the case of every letter as it is.
KeepCase(s) == s

\* String.prototype.toLowerCase
ToLowerCase(s) ==
    [i \in 1..Len(s) |->
        IF \E k \in 1..Len(UpperCase) : UpperCase[k] = s[i]
        THEN LowerCase[CHOOSE k \in 1..Len(UpperCase) : UpperCase[k] = s[i]]
        ELSE s[i]]

\* String.prototype.includes
Includes(hay, needle) ==
    \E i \in 0..(Len(hay) - Len(needle)) : SubSeq(hay, i + 1, i + Len(needle)) = needle

\* The key the comparator of filtered.sort reads from a record.
SortKey(p, sortBy) ==
    CASE sortBy = "upvotes" -> p.upvotes
      [] sortBy = "num_comments" -> p.num_comments
      [] OTHER -> p.created_at

\* A comparator that ignores sortOrder.
CompareDescending(a, b, sortBy, sortOrder) ==
    SortKey(b, sortBy) - SortKey(a, sortBy)

\* The comparator of filtered.sort: negative when a goes before b.
Compare(a, b, sortBy, sortOrder) ==
    IF sortOrder = "desc" THEN SortKey(b, sortBy) - SortKey(a, sortBy)
    ELSE SortKey(a, sortBy) - SortKey(b, sortBy)

\* One insertion of the stable sort: x goes after every element that does not
\* compare greater than it.
RECURSIVE InsertSorted(_, _, _, _)
InsertSorted(sorted, x, sortBy, sortOrder) ==
    IF sorted = <<>> THEN <<x>>
    ELSE IF Compare(Head(sorted), x, sortBy, sortOrder) <= 0
         THEN <<Head(sorted)>> \o InsertSorted(Tail(sorted), x, sortBy, sortOrder)
         ELSE <<x>> \o sorted

\* Array.prototype.sort with the comparator above (the sort is stable).
RECURSIVE SortPosts(_, _, _)
SortPosts(ps, sortBy, sortOrder) ==
    IF ps = <<>> THEN <<>>
    ELSE InsertSorted(SortPosts(SubSeq(ps, 1, Len(ps) - 1), sortBy, sortOrder),
                      ps[Len(ps)], sortBy, sortOrder)

\* A slice whose start is pulled back into the array when it lies beyond the end.
SliceLenient(s, start, end) ==
    LET Last(k) == IF k >= Len(s) THEN (IF Len(s) = 0 THEN 0 ELSE Len(s) - 1) ELSE k
        Clamp(k) == IF k > Len(s) THEN Len(s) ELSE k
    IN  SubSeq(s, Last(start) + 1, Clamp(Last(start) + (end - start)))

\* Array.prototype.slice(start, end), 0-based, end exclusive.
Slice(s, start, end) ==
    LET Clamp(k) == IF k < 0 THEN (IF Len(s) + k < 0 THEN 0 ELSE Len(s) + k)
                    ELSE IF k > Len(s) THEN Len(s) ELSE k
    IN  SubSeq(s, Clamp(start) + 1, Clamp(end))

\* Math.floor in the place of Math.ceil.
FloorDiv(total, limit) == total \div limit

\* Math.ceil(total / limit) for a positive limit.
CeilDiv(total, limit) == (total + limit - 1) \div limit

\* A date filter that reads the time of ingestion instead of created_at.
WithinDaysFetched(p, t, daysBack) == p.fetched_at >= CutoffDate(t, daysBack)

\* The predicate of the date filter in getPosts.
WithinDays(p, t, daysBack) == p.created_at >= CutoffDate(t, daysBack)

\* The four filters of getPosts, in the order the code applies them.
FilterPosts(ps, t, o) ==
    LET ByDate(p) == WithinDays(p, t, o.daysBack)
        ByUpvotes(p) == p.upvotes >= o.minUpvotes
        BySubreddit(p) == Includes(ToLowerCase(p.subreddit), ToLowerCase(o.subreddit))
        searchLower == ToLowerCase(o.search)
        BySearch(p) ==
            \/ Includes(ToLowerCase(p.title), searchLower)
            \/ Includes(ToLowerCase(p.author), searchLower)
            \/ (p.content # <<>> /\ Includes(ToLowerCase(p.content), searchLower))
        f1 == SelectSeq(ps, ByDate)
        f2 == IF o.minUpvotes > 0 THEN SelectSeq(f1, ByUpvotes) ELSE f1
        f3 == IF o.subreddit # <<>> THEN SelectSeq(f2, BySubreddit) ELSE f2
    IN  IF o.search # <<>> THEN SelectSeq(f3, BySearch) ELSE f3

\* getPosts(options) at time t: the value returned.
getPosts(ps, t, o) ==
    LET filtered == SortPosts(FilterPosts(ps, t, o), o.sortBy, o.sortOrder)
        total == Len(filtered)
        totalPages == CeilDiv(total, o.limit)
        offset == (o.page - 1) * o.limit
    IN  [posts |-> Slice(filtered, offset, offset + o.limit),
         pagination |-> [page |-> o.page, limit |-> o.limit, total |-> total,
                         totalPages |-> totalPages,
                         hasNext |-> o.page < totalPages,
                         hasPrev |-> o.page > 1]]

\* A getPosts that keeps the result of its date filter in this.posts, as
\* deleteOldPosts does.
postsAfterPruningRead(ps, t, o) ==
    LET ByDate(p) == WithinDays(p, t, o.daysBack)
    IN  SelectSeq(ps, ByDate)

\* this.posts after getPosts(options): `filtered` starts as the copy
\* [...this.posts], every filter builds a new array and sort() reorders the
\* last of them in place; this.posts is neither assigned nor reordered.
postsAfterGetPosts(ps, t, o) == ps

\* Array.prototype.find: undefined when no element matches.
NotFound == [found |-> FALSE]

\* getPost(redditId)
getPost(ps, redditId) ==
    IF \E i \in 1..Len(ps) : ps[i].reddit_id = redditId
    THEN ps[CHOOSE i \in 1..Len(ps) :
                /\ ps[i].reddit_id = redditId
                /\ \A j \in 1..(i - 1) : ps[j].reddit_id # redditId]
    ELSE NotFound

\* limit = 20: the default page size of getPosts.
DefaultLimit == 20

\* The options the request handlers and callers pass to getPosts.
QueryOptions ==
    [search : {<<>>}, subreddit : {<<>>}, sortBy : {"created_at", "upvotes"},
     sortOrder : {"desc"}, page : {1, 2}, limit : {1}, minUpvotes : {0, 5},
     daysBack : DaysBackVals]

\* -------------------------------------------------- load, backup, restore, stats
\* load() that leaves a missing file missing.
loadWithoutSave(f, d) ==
    IF f = Missing
    THEN [posts |-> <<>>, file |-> f, saves |-> 0]
    ELSE IF f.parseable
         THEN [posts |-> f.data, file |-> f, saves |-> 0]
         ELSE [posts |-> <<>>, file |-> f, saves |-> 0]

\* load(): read and parse the file if it exists, else start empty and save;
\* any error (JSON.parse on a cut file) is caught and leaves an empty list.
load(f, d) ==
    IF f = Missing
    THEN [posts |-> <<>>, file |-> Save(<<>>, f, d), saves |-> 1]
    ELSE IF f.parseable
         THEN [posts |-> f.data, file |-> f, saves |-> 0]
         ELSE [posts |-> <<>>, file |-> f, saves |-> 0]

\* cleanOldBackups(30) in backup().
BackupRetentionDays == 30

\* What backup() returns from its catch block.
NoBackupFile == [null |-> TRUE]

\* fileDate < cutoffDate: fileDate is midnight of the day in the file name,
\* cutoffDate is the present instant moved back retentionDays days (late: the
\* present instant is past midnight).
OlderThanCutoffInclusive(day, t, late, retentionDays) == day <= t - retentionDays

OlderThanCutoff(day, t, late, retentionDays) ==
    \/ day < t - retentionDays
    \/ day = t - retentionDays /\ late

\* cleanOldBackups(retentionDays): unlink every snapshot older than the cutoff.
cleanOldBackups(dir, t, late, retentionDays) ==
    LET kept == {day \in DOMAIN dir : ~OlderThanCutoff(day, t, late, retentionDays)}
    IN  [day \in kept |-> dir[day]]

\* backup(): write posts-backup-<today>.json, then clean old snapshots; a
\* failed write is caught, skips the cleaning and returns null.
backup(ps, dir, d, t, late) ==
    LET written == [day \in DOMAIN dir \cup {t} |->
                        IF day = t THEN Save(ps, Missing, d) ELSE dir[day]]
    IN  IF d = "ok"
        THEN [dir |-> cleanOldBackups(written, t, late, BackupRetentionDays),
              ret |-> [backupFile |-> t]]
        ELSE [dir |-> written, ret |-> NoBackupFile]

\* restore() that keeps the collection it had and only rewrites the file.
restoreKeepsMemory(ps, f, d, dir, day) ==
    IF day \in DOMAIN dir /\ dir[day].parseable
    THEN [posts |-> ps, file |-> Save(ps, f, d), ret |-> TRUE, saves |-> 1]
    ELSE [posts |-> ps, file |-> f, ret |-> FALSE, saves |-> 0]

\* restore(backupFile): a missing file and an unparseable one both end in the
\* catch block before this.posts is assigned.
restore(ps, f, d, dir, day) ==
    IF day \notin DOMAIN dir
    THEN [posts |-> ps, file |-> f, ret |-> FALSE, saves |-> 0]
    ELSE IF ~dir[day].parseable
         THEN [posts |-> ps, file |-> f, ret |-> FALSE, saves |-> 0]
         ELSE [posts |-> dir[day].data, file |-> Save(dir[day].data, f, d),
               ret |-> TRUE, saves |-> 1]

\* 7 * 24 * 60 * 60 * 1000 ms, in days.
WeekDays == 7

\* The fetched_at of the first record instead of the greatest.
FirstFetchedAt(ps) == ps[1].fetched_at

\* Math.max over the fetched_at of a non-empty list.
RECURSIVE MaxFetchedAt(_)
MaxFetchedAt(ps) ==
    IF Len(ps) = 1 THEN ps[1].fetched_at
    ELSE LET m == MaxFetchedAt(Tail(ps))
         IN  IF ps[1].fetched_at > m THEN ps[1].fetched_at ELSE m

\* What getStats returns as lastUpdated for an empty collection.
Null == [null |-> TRUE]

\* postsLast24h and postsLastWeek: the posts with postDate >= the cutoff.
CountSince(ps, t, days) ==
    Cardinality({i \in 1..Len(ps) : ps[i].created_at >= t - days})

getStats(ps, t) ==
    LET names == {ps[i].subreddit : i \in 1..Len(ps)}
    IN  [totalPosts |-> Len(ps),
         postsLast24h |-> CountSince(ps, t, 1),
         postsLastWeek |-> CountSince(ps, t, WeekDays),
         subredditCounts |->
             [n \in names |-> Cardinality({i \in 1..Len(ps) : ps[i].subreddit = n})],
         lastUpdated |-> IF Len(ps) > 0 THEN [ms |-> MaxFetchedAt(ps)] ELSE Null]

\* ---------------------------------------------------------- relevance filter
\* Two of ALL_KEYWORDS: 'claude' and 'mcp server'.
Keywords ==
    {<<"c", "l", "a", "u", "d", "e">>,
     <<"m", "c", "p", " ", "s", "e", "r", "v", "e", "r">>}

\* Two of DEDICATED_SUBS: 'claude' and 'claudeai'.
DedicatedSubs ==
    {<<"c", "l", "a", "u", "d", "e">>,
     <<"c", "l", "a", "u", "d", "e", "a", "i">>}

\* The channels an adapter reads: a dedicated and a general subreddit, a
\* dedicated and a general Dev.to tag, a HackerNews query and a GitHub query.
Channels ==
    {[source |-> "reddit", name |-> <<"C", "l", "a", "u", "d", "e", "A", "I">>],
     [source |-> "reddit", name |-> <<"O", "p", "e", "n", "A", "I">>],
     [source |-> "devto", name |-> <<"c", "l", "a", "u", "d", "e">>],
     [source |-> "devto", name |-> <<"l", "l", "m">>],
     [source |-> "hackernews", name |-> <<"c", "l", "a", "u", "d", "e">>],
     [source |-> "github", name |-> <<"c", "l", "a", "w", "h", "u", "b">>]}

\* 30 * 24 * 60 * 60 * 1000 ms, in days.
RedditWindowDays == 30

\* What a remote side lists: a title (or repository name), a body (selftext,
\* description, story text) and a date, fresh, on the edge of the window, or old.
RawTitles == {<<"C", "l", "a", "u", "d", "e">>, <<"R", "u", "s", "t">>, <<"m", "c", "p">>}

RawBodies == {<<>>, <<"s", "e", "r", "v", "e", "r">>, <<"C", "L", "A", "U", "D", "E">>}

RawDates(t) == {t, t - RedditWindowDays, t - RedditWindowDays - 1}

RawItems(t) == [title : RawTitles, body : RawBodies, created : RawDates(t)]

RawResponses(t) == UNION {[1..n -> RawItems(t)] : n \in 1..MaxResponse}

\* keywords.some(kw => titleLower.includes(kw.toLowerCase()) ||
\*                     bodyLower.includes(kw.toLowerCase()))
HasKeyword(raw) ==
    \E kw \in Keywords :
        \/ Includes(ToLowerCase(raw.title), ToLowerCase(kw))
        \/ Includes(ToLowerCase(raw.body), ToLowerCase(kw))

\* A filter of fetchSubredditPosts that tests the keyword before it looks at
\* the kind of subreddit.
KeepRedditKeywordFirst(raw, sub, t) ==
    /\ ~(raw.created < t - RedditWindowDays)
    /\ HasKeyword(raw)

\* The callback of posts.filter in fetchSubredditPosts.
KeepReddit(raw, sub, t) ==
    IF raw.created < t - RedditWindowDays THEN FALSE
    ELSE IF ToLowerCase(sub) \in DedicatedSubs THEN TRUE
    ELSE HasKeyword(raw)

\* relevant in fetchDevTo: the tag is dedicated, or a keyword occurs in the
\* lower-cased title + ' ' + description.
KeepDevTo(raw, tag) ==
    \/ tag \in DedicatedSubs
    \/ \E kw \in Keywords :
          Includes(ToLowerCase(raw.title \o <<" ">> \o raw.body), ToLowerCase(kw))

\* The test an adapter applies to an entry of a response of channel ch.
Keeps(raw, ch, t) ==
    CASE ch.source = "reddit" -> KeepReddit(raw, ch.name, t)
      [] ch.source = "devto" -> KeepDevTo(raw, ch.name)
      [] OTHER -> TRUE

\* The title and content of the item an adapter builds from a kept entry.
Built(raw, ch) ==
    [title |->
        CASE ch.source = "reddit" -> raw.title
          [] ch.source = "devto" -> <<"[", "D", "e", "v", ".", "t", "o", "]", " ">> \o raw.title
          [] ch.source = "hackernews" -> <<"[", "H", "N", "]", " ">> \o raw.title
          [] OTHER -> <<"[", "G", "i", "t", "H", "u", "b", "]", " ">> \o raw.title
                          \o <<" ">> \o raw.body,
     content |-> raw.body,
     created_at |-> raw.created]

\* The array an adapter returns for the response raws of channel ch.
RECURSIVE AdapterItems(_, _, _)
AdapterItems(raws, ch, t) ==
    IF raws = <<>> THEN <<>>
    ELSE (IF Keeps(Head(raws), ch, t) THEN <<Built(Head(raws), ch)>> ELSE <<>>)
             \o AdapterItems(Tail(raws), ch, t)

\* No response has been handled.
NoResponse == [op |-> "none"]

\* ------------------------------------------------------------------ actions
\* The aggregator before server.listen.
Idle ==
    /\ fetch = FetchIdle
    /\ retry = [s \in Targets |-> NotCalled]
    /\ sys = NotListening
    /\ adapt = NoResponse
    /\ proc = Running(DefaultPollSeconds)
    /\ term = [c \in Conns |-> NoSocket]
    /\ millis = 0
    /\ loop = NoLoop
    /\ client = Unmounted

\* Everything but the backup directory, which outlives the process.
Constructed ==
    /\ posts = <<>>
    /\ file = FileOf(<<>>)
    /\ disk = "ok"
    /\ now = 0
    /\ last = [op |-> "new", at |-> 0]
    /\ Idle

Init ==
    /\ Constructed
    /\ backups = NoSnapshots

Tick ==
    /\ now < MaxTime
    /\ now' = now + 1
    /\ UNCHANGED <<posts, file, disk, last, aggregator>>

DiskChange ==
    /\ disk' = IF disk = "ok" THEN "full" ELSE "ok"
    /\ UNCHANGED <<posts, file, now, last, aggregator>>

UpsertPost ==
    \E post \in Items :
      \E r \in IF Draws(posts, <<post>>) = 0 THEN {0} ELSE Rand :
        \E res \in {upsertPost(posts, file, disk, post, now, r)} :
            /\ posts' = res.posts
            /\ file' = res.file
            /\ last' = [op |-> "upsertPost", arg |-> post, at |-> now, ret |-> res.ret,
                        saves |-> res.saves, index |-> res.index, old |-> res.old]
            /\ UNCHANGED <<disk, now, aggregator>>

UpsertPosts ==
    \E batch \in Batches :
        \E rs \in [1..Draws(posts, batch) -> Rand] :
            \E res \in {upsertPosts(posts, file, disk, batch, now, rs)} :
                /\ posts' = res.posts
                /\ file' = res.file
                /\ last' = [op |-> "upsertPosts", arg |-> batch, at |-> now,
                            ret |-> res.ret, saves |-> res.saves,
                            again |-> (last.op = "upsertPosts" /\ last.arg = batch)]
                /\ UNCHANGED <<disk, now, aggregator>>

DeleteOldPosts ==
    \E daysBack \in DaysBackVals :
        \E res \in {deleteOldPosts(posts, file, disk, now, daysBack)} :
            /\ posts' = res.posts
            /\ file' = res.file
            /\ last' = [op |-> "deleteOldPosts", arg |-> daysBack, at |-> now,
                        ret |-> res.ret, saves |-> res.saves]
            /\ UNCHANGED <<disk, now, aggregator>>

GetPosts ==
    \E o \in QueryOptions :
        /\ last' = [op |-> "getPosts", arg |-> o, at |-> now,
                    ret |-> getPosts(posts, now, o), saves |-> 0]
        /\ UNCHANGED <<posts, file, disk, now, aggregator>>

\* The store driven one call at a time, on a disk that takes every write.
Next ==
    \/ Tick
    \/ UpsertPost
    \/ DeleteOldPosts

Spec == Init /\ [][Next]_vars

\* The same on a disk that may reject writes.
NextDisk ==
    \/ Tick
    \/ DiskChange
    \/ UpsertPost
    \/ DeleteOldPosts

SpecDisk == Init /\ [][NextDisk]_vars

\* The store driven by bulk upserts, as the aggregation cycle drives it.
NextBulk ==
    \/ Tick
    \/ UpsertPost
    \/ UpsertPosts

SpecBulk == Init /\ [][NextBulk]_vars

\* The store filled by upserts and read by queries.
NextQuery ==
    \/ Tick
    \/ UpsertPost
    \/ GetPosts

SpecQuery == Init /\ [][NextQuery]_vars

\* ------------------------------------------------------- paging and filters
\* One item of each of three sources, as old as any time of the clock.
FetchedItems ==
    {RedditItem("t3_a", t) : t \in Times} \cup {GitHubItem("gh_42", t) : t \in Times}
        \cup {HNItem("hn_7", t) : t \in Times}

\* Math.min(parseInt(limit), 100) in GET /api/posts.
LimitCap == 100

\* Requests that page through the unfiltered or score-filtered collection.
PageOptions ==
    [search : {<<>>}, subreddit : {<<>>}, sortBy : {"created_at"},
     sortOrder : {"desc"}, page : 1..MaxPage, limit : 1..MaxLimit,
     minUpvotes : {0, 5}, daysBack : {RetentionDays}]

\* Requests that filter by origin and by minimum score on one large page.
FilterOptions ==
    [search : {<<>>}, subreddit : {<<>>, <<"g", "I">>, <<"i">>},
     sortBy : {"created_at"}, sortOrder : {"desc"}, page : {1},
     limit : {LimitCap}, minUpvotes : {0, 3, 5}, daysBack : {RetentionDays}]

\* db.upsertPost(post) for an item of any of the three sources.
UpsertFetched ==
    \E post \in FetchedItems :
      \E r \in IF Draws(posts, <<post>>) = 0 THEN {0} ELSE Rand :
        \E res \in {upsertPost(posts, file, disk, post, now, r)} :
            /\ posts' = res.posts
            /\ file' = res.file
            /\ last' = [op |-> "upsertPost", arg |-> post, at |-> now, ret |-> res.ret,
                        saves |-> res.saves, index |-> res.index, old |-> res.old]
            /\ UNCHANGED <<disk, now, aggregator>>

\* db.getPosts(options) for one page of the collection.
GetPage ==
    \E o \in PageOptions :
        /\ last' = [op |-> "getPosts", arg |-> o, at |-> now,
                    ret |-> getPosts(posts, now, o), saves |-> 0]
        /\ UNCHANGED <<posts, file, disk, now, aggregator>>

\* db.getPosts(options) with an origin filter, a minimum score, or both.
GetFiltered ==
    \E o \in FilterOptions :
        /\ last' = [op |-> "getPosts", arg |-> o, at |-> now,
                    ret |-> getPosts(posts, now, o), saves |-> 0]
        /\ UNCHANGED <<posts, file, disk, now, aggregator>>

\* The store filled from three sources and read page by page and by filter.
NextRead ==
    \/ UpsertFetched
    \/ GetPage
    \/ GetFiltered

SpecRead == Init /\ [][NextRead]_vars

\* ------------------------------------------------------------ fetchAllPosts
\* fetchAllPosts() is called: the curated list is there at once, every other
\* request is under way or queued behind the one before it.
StartFetch ==
    /\ fetch.phase = "idle"
    /\ fetch' = [fetch EXCEPT !.phase = "running",
                              !.units["curated"] = Answered(Response("curated", now))]
    /\ UNCHANGED <<posts, file, disk, now, last, retry, sys, adapt, backups, proc, term, millis, loop, client>>

\* Request u is answered, or fails (timeout, HTTP error, malformed body: the
\* catch of its adapter, and for a subreddit the end of its retries).
Settle(u) ==
    /\ fetch.phase = "running"
    /\ fetch.units[u].state = "pending"
    /\ \A v \in AwaitedFirst(u) : fetch.units[v].state # "pending"
    /\ \E outcome \in {Answered(Response(u, now)), Failed} :
            fetch' = [fetch EXCEPT !.units[u] = outcome]
    /\ UNCHANGED <<posts, file, disk, now, last, retry, sys, adapt, backups, proc, term, millis, loop, client>>

\* Promise.all resolves: fetchAllPosts concatenates, deduplicates, upserts the
\* unique items when there are any, and returns them.
FinishFetch ==
    /\ fetch.phase = "running"
    /\ \A u \in UnitNames : fetch.units[u].state # "pending"
    /\ \E uniquePosts \in {UniquePosts(fetch.units)} :
         \E r \in Rand :
           \E res \in {IF Len(uniquePosts) > 0
                       THEN upsertPosts(posts, file, disk, uniquePosts, now,
                                        [i \in 1..Draws(posts, uniquePosts) |-> r])
                       ELSE [posts |-> posts, file |-> file, ret |-> <<>>, saves |-> 0]} :
                /\ posts' = res.posts
                /\ file' = res.file
                /\ fetch' = [fetch EXCEPT !.phase = "done", !.result = uniquePosts]
                /\ last' = [op |-> "fetchAllPosts", at |-> now, saves |-> res.saves]
    /\ UNCHANGED <<disk, now, retry, sys, adapt, backups, proc, term, millis, loop, client>>

\* One aggregation cycle, its requests settling in any order.
NextFetch ==
    \/ StartFetch
    \/ \E u \in UnitNames \ {"curated"} : Settle(u)
    \/ FinishFetch

SpecFetch == Init /\ [][NextFetch]_vars

\* ------------------------------------------------- retries of one subreddit
\* fetchSubredditPosts(sub, token) is called: attempt 1 sends its request.
CallFetchSubreddit(s) ==
    /\ retry[s].phase = "idle"
    /\ retry' = [retry EXCEPT ![s] = [@ EXCEPT !.phase = "requesting", !.attempt = 1,
                                               !.requests = 1]]
    /\ UNCHANGED <<posts, file, disk, now, last, fetch, sys, adapt, backups, proc, term, millis, loop, client>>

\* The request of the current attempt is answered: the filtered, mapped posts
\* are returned.
RequestAnswered(s) ==
    /\ retry[s].phase = "requesting"
    /\ retry' = [retry EXCEPT ![s] = [@ EXCEPT !.phase = "returned", !.ok = TRUE,
                                               !.result = Response(s, now)]]
    /\ UNCHANGED <<posts, file, disk, now, last, fetch, sys, adapt, backups, proc, term, millis, loop, client>>

\* The request of the current attempt fails (the catch block): a timer of
\* Backoff(attempt) is set when attempts are left, [] is returned otherwise.
RequestFailed(s) ==
    /\ retry[s].phase = "requesting"
    /\ \E delay \in {Backoff(retry[s].attempt)} :
         retry' = [retry EXCEPT ![s] =
                      IF retry[s].attempt < Retries
                      THEN [retry[s] EXCEPT !.phase = "waiting", !.delay = delay,
                                            !.waited = 0]
                      ELSE [retry[s] EXCEPT !.phase = "returned", !.delay = delay,
                                            !.ok = FALSE, !.result = <<>>]]
    /\ UNCHANGED <<posts, file, disk, now, last, fetch, sys, adapt, backups, proc, term, millis, loop, client>>

\* The timer of the wait has run its delay: the loop goes to the next attempt.
BackoffElapsed(s) ==
    /\ retry[s].phase = "waiting"
    /\ retry[s].waited * MsPerSecond >= retry[s].delay
    /\ retry' = [retry EXCEPT ![s] = [@ EXCEPT !.phase = "requesting",
                                               !.attempt = @ + 1, !.requests = @ + 1]]
    /\ UNCHANGED <<posts, file, disk, now, last, fetch, sys, adapt, backups, proc, term, millis, loop, client>>

\* A second passes for every timer that has not run its delay yet.
Second ==
    /\ \E s \in Targets :
           retry[s].phase = "waiting" /\ retry[s].waited * MsPerSecond < retry[s].delay
    /\ retry' = [s \in Targets |->
                    IF retry[s].phase = "waiting"
                           /\ retry[s].waited * MsPerSecond < retry[s].delay
                    THEN [retry[s] EXCEPT !.waited = @ + 1]
                    ELSE retry[s]]
    /\ UNCHANGED <<posts, file, disk, now, last, fetch, sys, adapt, backups, proc, term, millis, loop, client>>

\* The subreddit fetches of one cycle, each with its retries.
NextRetry ==
    \/ \E s \in Targets : CallFetchSubreddit(s)
    \/ \E s \in Targets : RequestAnswered(s)
    \/ \E s \in Targets : RequestFailed(s)
    \/ \E s \in Targets : BackoffElapsed(s)
    \/ Second

SpecRetry == Init /\ [][NextRetry]_vars

\* ------------------------------------------------------- the running server
InFlight == sys.cycles["startup"] + sys.cycles["poll"] + sys.cycles["refresh"]
                + sys.cycles["socket"]

\* The callback of server.listen: startPolling() runs up to the await of its
\* initial fetchAllPosts(), and scheduleDailyBackup() arms the midnight timer.
Listen ==
    /\ proc.state # "exited"
    /\ ~sys.started
    /\ sys' = [sys EXCEPT !.started = TRUE, !.cycles["startup"] = 1]
    /\ UNCHANGED <<posts, file, disk, now, last, fetch, retry, adapt, backups, proc, term, millis, loop, client>>

\* The poll interval fires: its callback calls fetchAllPosts(). Before a
\* shutdown any time may have passed since the last firing; during the grace
\* period the seconds are counted.
PollFires ==
    /\ proc.state # "exited"
    /\ sys.polling = "set"
    /\ proc.state = "running" \/ proc.pollLeft = 0
    /\ InFlight < MaxInFlight
    /\ sys' = [sys EXCEPT !.cycles["poll"] = @ + 1]
    /\ proc' = [proc EXCEPT !.pollLeft = proc.pollEvery,
                            !.late = IF proc.state = "shutting" THEN @ + 1 ELSE @]
    /\ UNCHANGED <<posts, file, disk, now, last, fetch, retry, adapt, backups, term, millis, loop, client>>

\* POST /api/refresh arrives: the handler calls fetchAllPosts().
PostRefresh ==
    /\ proc.state # "exited"
    /\ sys.started
    /\ InFlight < MaxInFlight
    /\ sys' = [sys EXCEPT !.cycles["refresh"] = @ + 1]
    /\ UNCHANGED <<posts, file, disk, now, last, fetch, retry, adapt, backups, proc, term, millis, loop, client>>

\* A connected socket sends 'request-refresh': the handler calls fetchAllPosts().
RequestRefresh ==
    /\ proc.state # "exited"
    /\ sys.started
    /\ sys.clients > 0
    /\ InFlight < MaxInFlight
    /\ sys' = [sys EXCEPT !.cycles["socket"] = @ + 1]
    /\ UNCHANGED <<posts, file, disk, now, last, fetch, retry, adapt, backups, proc, term, millis, loop, client>>

\* io.on('connection'): connectedClients++
Connect ==
    /\ proc.state = "running"
    /\ sys.started
    /\ sys.clients < MaxClients
    /\ sys' = [sys EXCEPT !.clients = @ + 1]
    /\ UNCHANGED <<posts, file, disk, now, last, fetch, retry, adapt, backups, proc, term, millis, loop, client>>

\* socket.on('disconnect'): connectedClients--
Disconnect ==
    /\ proc.state # "exited"
    /\ sys.clients > 0
    /\ sys' = [sys EXCEPT !.clients = @ - 1]
    /\ UNCHANGED <<posts, file, disk, now, last, fetch, retry, adapt, backups, proc, term, millis, loop, client>>

\* A fetchAllPosts call started by g resolves: it upserts its unique items and
\* returns them, and its caller goes on: startPolling makes a backup and sets
\* the poll interval; the interval callback and the two refresh handlers emit
\* 'posts-updated'.
CycleCompletes(g) ==
    /\ proc.state # "exited"
    /\ sys.cycles[g] > 0
    /\ \E kind \in CycleOutcomes :
         \E uniquePosts \in {UniquePosts(OutcomeUnits(kind, now))} :
           \E r \in Rand :
             \E res \in {IF Len(uniquePosts) > 0
                         THEN upsertPosts(posts, file, disk, uniquePosts, now,
                                          [i \in 1..Draws(posts, uniquePosts) |-> r])
                         ELSE [posts |-> posts, file |-> file, ret |-> <<>>, saves |-> 0]} :
                /\ posts' = res.posts
                /\ file' = res.file
                /\ last' = [op |-> "fetchAllPosts", at |-> now, saves |-> res.saves]
                /\ sys' = [sys EXCEPT
                             !.cycles[g] = @ - 1,
                             !.polling = IF g = "startup" THEN "set" ELSE @,
                             !.backups = IF g = "startup" THEN BackupOn(@, now) ELSE @,
                             !.done = [trigger |-> g, count |-> Len(uniquePosts),
                                       events |-> IF g = "startup" THEN <<>>
                                                  ELSE <<PostsUpdated(uniquePosts, sys.clients)>>]]
    /\ proc' = IF g = "startup" THEN [proc EXCEPT !.pollLeft = proc.pollEvery] ELSE proc
    /\ UNCHANGED <<disk, now, fetch, retry, adapt, backups, term, millis, loop, client>>

\* Midnight: the day turns and the daily timer runs db.backup(), which
\* catches a failed write, and generateDailyReport(), which does not.
Midnight ==
    /\ proc.state # "exited"
    /\ sys.started
    /\ now < MaxTime
    /\ now' = now + 1
    /\ sys' = IF disk = "ok" THEN [sys EXCEPT !.backups = BackupOn(@, now + 1)] ELSE sys
    /\ proc' = generateDailyReport(proc, disk)
    /\ UNCHANGED <<posts, file, disk, last, fetch, retry, adapt, backups, term, millis, loop, client>>

\* The server from server.listen on: timers, HTTP requests and socket events.
NextSystem ==
    \/ Listen
    \/ PollFires
    \/ PostRefresh
    \/ RequestRefresh
    \/ Connect
    \/ Disconnect
    \/ \E g \in Triggers : CycleCompletes(g)
    \/ Midnight

SpecSystem == Init /\ [][NextSystem]_vars

\* The same server under the scheduling Node guarantees: the listen callback
\* runs, the poll interval and the midnight timer keep firing, and the event
\* loop never stops while something is left to run.
SpecSystemFair ==
    /\ Init
    /\ [][NextSystem]_vars
    /\ WF_vars(NextSystem)
    /\ WF_vars(Listen)
    /\ WF_vars(PollFires)
    /\ WF_vars(Midnight)

\* ------------------------------------------------- one response of a channel
\* An adapter sends the request of channel ch.
SendRequest ==
    /\ adapt.op = "none"
    /\ \E ch \in Channels : adapt' = [op |-> "request", channel |-> ch]
    /\ UNCHANGED <<posts, file, disk, now, last, fetch, retry, sys, backups, proc, term, millis, loop, client>>

\* The request is answered with raws: the adapter filters the entries and
\* builds an item of each one kept.
HandleResponse ==
    /\ adapt.op = "request"
    /\ \E raws \in RawResponses(now) :
            adapt' = [op |-> "response", channel |-> adapt.channel, raws |-> raws,
                      at |-> now, items |-> AdapterItems(raws, adapt.channel, now)]
    /\ UNCHANGED <<posts, file, disk, now, last, fetch, retry, sys, backups, proc, term, millis, loop, client>>

\* One request of one adapter and its response.
NextFilter ==
    \/ SendRequest
    \/ HandleResponse

SpecFilter == Init /\ [][NextFilter]_vars

\* ------------------------------------------------ backup, restore, statistics
\* Items of three ages: of today, of six days ago and of a week ago.
AgedItems ==
    {RedditItem("t3_a", 0), GitHubItem("gh_42", 1 - WeekDays), HNItem("hn_7", 0 - WeekDays)}

\* The days of the snapshots an earlier run of the server left behind.
OldDays == {0 - BackupRetentionDays - 1, 0 - BackupRetentionDays}

\* Backup directories an earlier run left behind: each snapshot holds an empty
\* collection, or was cut short by a failed write.
OldDirs ==
    UNION {[S -> {FileOf(<<>>)}] : S \in SUBSET OldDays}
        \cup {[day \in OldDays |-> Truncated]}

\* The server started over a backup directory that already holds snapshots.
InitAdmin ==
    /\ Constructed
    /\ backups \in OldDirs

\* db.upsertPost(post) for an item of one of the three ages.
UpsertAged ==
    \E post \in AgedItems :
      \E r \in IF Draws(posts, <<post>>) = 0 THEN {0} ELSE Rand :
        \E res \in {upsertPost(posts, file, disk, post, now, r)} :
            /\ posts' = res.posts
            /\ file' = res.file
            /\ last' = [op |-> "upsertPost", arg |-> post, at |-> now, ret |-> res.ret,
                        saves |-> res.saves, index |-> res.index, old |-> res.old]
            /\ UNCHANGED <<disk, now, aggregator>>

\* db.upsertPost(post) for today's forum post.
UpsertToday ==
    \E post \in {RedditItem("t3_a", 0)} :
      \E r \in IF Draws(posts, <<post>>) = 0 THEN {0} ELSE Rand :
        \E res \in {upsertPost(posts, file, disk, post, now, r)} :
            /\ posts' = res.posts
            /\ file' = res.file
            /\ last' = [op |-> "upsertPost", arg |-> post, at |-> now, ret |-> res.ret,
                        saves |-> res.saves, index |-> res.index, old |-> res.old]
            /\ UNCHANGED <<disk, now, aggregator>>

\* db.backup(), at midnight sharp or later in the day.
Backup ==
    \E late \in BOOLEAN :
        \E res \in {backup(posts, backups, disk, now, late)} :
            /\ backups' = res.dir
            /\ last' = [op |-> "backup", at |-> now, late |-> late, ret |-> res.ret,
                        saves |-> 0]
            /\ UNCHANGED <<posts, file, disk, now, fetch, retry, sys, adapt, proc, term, millis, loop, client>>

\* db.restore(backupFile) for the snapshot path of some day.
Restore ==
    \E day \in OldDays \cup Times :
        \E res \in {restore(posts, file, disk, backups, day)} :
            /\ posts' = res.posts
            /\ file' = res.file
            /\ last' = [op |-> "restore", arg |-> day, at |-> now, ret |-> res.ret,
                        saves |-> res.saves]
            /\ UNCHANGED <<disk, now, aggregator>>

\* db.getStats()
GetStats ==
    /\ last' = [op |-> "getStats", at |-> now, ret |-> getStats(posts, now), saves |-> 0]
    /\ UNCHANGED <<posts, file, disk, now, aggregator>>

\* The store filled, backed up and restored on a healthy disk, over a backup
\* directory that already holds snapshots.
NextAdmin ==
    \/ Tick
    \/ UpsertToday
    \/ Backup
    \/ Restore

SpecAdmin == InitAdmin /\ [][NextAdmin]_vars

\* The store filled and summarised.
NextStats ==
    \/ Tick
    \/ UpsertAged
    \/ GetStats

SpecStats == Init /\ [][NextStats]_vars

\* ------------------------------------------------------ construction (load)
\* What new PostsDatabase(dbPath) may find at dbPath: nothing, a file cut
\* short, the file of an empty collection, the file of one stored record.
StartFiles ==
    {Missing, Truncated, FileOf(<<>>),
     FileOf(<<upsertPost(<<>>, Missing, "ok", RedditItem("t3_a", 0), 0, 0).ret>>)}

\* The constructor up to this.posts = [], before load().
InitLoad ==
    /\ posts = <<>>
    /\ file \in StartFiles
    /\ disk = "ok"
    /\ now = 0
    /\ last = [op |-> "none", at |-> 0]
    /\ Idle
    /\ backups = NoSnapshots

\* this.load() in the constructor.
Construct ==
    /\ last.op = "none"
    /\ \E res \in {load(file, disk)} :
        /\ posts' = res.posts
        /\ file' = res.file
        /\ last' = [op |-> "load", arg |-> file, at |-> now, saves |-> res.saves]
    /\ UNCHANGED <<disk, now, aggregator>>

\* The store constructed over whatever is at dbPath, then used.
NextLoad ==
    \/ Construct
    \/ last.op # "none" /\ Tick
    \/ last.op # "none" /\ UpsertAged
    \/ last.op # "none" /\ GetPage
    \/ last.op # "none" /\ GetStats

SpecLoad == InitLoad /\ [][NextLoad]_vars

\* ---------------------------------------------------------------- shutdown
\* The server started with POLL_INTERVAL at its default or set short.
InitShutdown ==
    /\ posts = <<>>
    /\ file = FileOf(<<>>)
    /\ disk = "ok"
    /\ now = 0
    /\ last = [op |-> "new", at |-> 0]
    /\ fetch = FetchIdle
    /\ retry = [s \in Targets |-> NotCalled]
    /\ sys = NotListening
    /\ adapt = NoResponse
    /\ backups = NoSnapshots
    /\ \E every \in PollSeconds : proc = Running(every)
    /\ term = [c \in Conns |-> NoSocket]
    /\ millis = 0
    /\ loop = NoLoop
    /\ client = Unmounted

\* SIGTERM or SIGINT once the server listens: gracefulShutdown() runs.
Signal ==
    /\ proc.state # "exited"
    /\ sys.started
    /\ \E res \in {gracefulShutdown(proc, sys.polling)} :
        /\ proc' = res.proc
        /\ sys' = [sys EXCEPT !.polling = res.polling]
    /\ UNCHANGED <<posts, file, disk, now, last, fetch, retry, adapt, backups, term, millis, loop, client>>

\* The listener has no connection left: the callback of server.close runs
\* process.exit(0).
ServerCloses ==
    /\ proc.state = "shutting"
    /\ proc' = [proc EXCEPT !.state = "exited", !.code = 0]
    /\ UNCHANGED <<posts, file, disk, now, last, fetch, retry, sys, adapt, backups, term, millis, loop, client>>

\* A second of the grace period passes, on the forced-exit timer and on the
\* poll interval if one is set.
SecondPasses ==
    /\ proc.state = "shutting"
    /\ proc.grace > 0
    /\ proc' = [proc EXCEPT
                  !.grace = @ - 1,
                  !.pollLeft = IF sys.polling = "set" /\ @ > 0 THEN @ - 1 ELSE @]
    /\ UNCHANGED <<posts, file, disk, now, last, fetch, retry, sys, adapt, backups, term, millis, loop, client>>

\* The forced-exit timer fires: process.exit(1).
ForcedExit ==
    /\ proc.state = "shutting"
    /\ proc.grace = 0
    /\ proc' = [proc EXCEPT !.state = "exited", !.code = 1]
    /\ UNCHANGED <<posts, file, disk, now, last, fetch, retry, sys, adapt, backups, term, millis, loop, client>>

\* The server between server.listen and its exit.
NextShutdown ==
    \/ Listen
    \/ PollFires
    \/ Connect
    \/ Disconnect
    \/ \E g \in {"startup", "poll"} : CycleCompletes(g)
    \/ Signal
    \/ ServerCloses
    \/ SecondPasses
    \/ ForcedExit

SpecShutdown == InitShutdown /\ [][NextShutdown]_vars

\* The same under the scheduling Node guarantees: time passes and a timer
\* that is due fires.
SpecShutdownFair ==
    /\ InitShutdown
    /\ [][NextShutdown]_vars
    /\ WF_vars(SecondPasses)
    /\ WF_vars(ForcedExit)

\* ------------------------------------------------------- web terminal server
\* wss.on('connection') for a client.
Open(c) ==
    /\ term[c].ready = "none"
    /\ term[c].spawned = 0
    /\ term' = [term EXCEPT ![c] = Accepted]
    /\ UNCHANGED <<posts, file, disk, now, last, fetch, retry, sys, adapt, backups, proc, millis, loop, client>>

\* ws.on('message') for a message of the client; ws goes on emitting the
\* messages that arrive after ws.close() until the closing handshake is over.
Message(c) ==
    /\ term[c].ready \in {"open", "closing"}
    /\ \E m \in Messages :
         \E spawns \in BOOLEAN :
            /\ (m.type = "auth" /\ m.token = AUTH_TOKEN /\ spawns) =>
                    term[c].spawned < MaxSpawns
            /\ term' = [term EXCEPT ![c] = onMessage(term[c], m, spawns)]
    /\ UNCHANGED <<posts, file, disk, now, last, fetch, retry, sys, adapt, backups, proc, millis, loop, client>>

\* ws.on('close'), and ws.on('error') before it when the socket fails:
\* ptyProcess.kill() for the process the variable refers to, if there is one.
Close(c) ==
    /\ term[c].ready \in {"open", "closing"}
    /\ term' = [term EXCEPT ![c] =
                    [@ EXCEPT !.ready = "closed",
                              !.pty = IF term[c].pty = "null" THEN "null" ELSE "killed",
                              !.killed = IF term[c].pty = "alive" THEN @ + 1 ELSE @,
                              !.reply = "none", !.wrote = "none"]]
    /\ UNCHANGED <<posts, file, disk, now, last, fetch, retry, sys, adapt, backups, proc, millis, loop, client>>

\* The terminal server and its clients.
NextTerminal ==
    \/ \E c \in Conns : Open(c)
    \/ \E c \in Conns : Message(c)
    \/ \E c \in Conns : Close(c)

SpecTerminal == Init /\ [][NextTerminal]_vars

\* ------------------------------------------------------- consecutive cycles
\* The adapters whose requests go over the network.
NetworkAdapters == {"blog", "hn", "gh", "devto", "reddit"}

AdapterOf(u) ==
    CASE u \in {"hn1", "hn2"} -> "hn"
      [] u \in {"gh1", "gh2"} -> "gh"
      [] u \in {"devto1", "devto2"} -> "devto"
      [] u \in {"r1", "r2"} -> "reddit"
      [] OTHER -> u

\* fetchAnthropicBlog's item for the idx-th <item> of a feed published on day
\* pub, built at Date.now() = ms.
StampedBlogItem(idx, pub, ms) == [BlogItem(idx, pub) EXCEPT !.reddit_id = BlogId(idx, ms)]

\* What the requests of a cycle return when the sources in answering answer
\* with the content they had on day t and the others fail.
CycleUnits(answering, t, ms) ==
    [u \in UnitNames |->
        CASE u = "curated" -> Answered(Response(u, t))
          [] u = "blog" /\ "blog" \in answering -> Answered(<<StampedBlogItem(0, t, ms)>>)
          [] AdapterOf(u) \in answering -> Answered(Response(u, t))
          [] OTHER -> Failed]

\* A whole fetchAllPosts() call, from its first request to its return; the
\* staggered subreddit requests alone take it past the millisecond it began in.
RunCycle ==
    /\ millis < MaxMillis
    /\ \E answering \in SUBSET NetworkAdapters :
         \E ms \in (millis + 1)..MaxMillis :
           \E units \in {CycleUnits(answering, 0, ms)} :
             \E uniquePosts \in {UniquePosts(units)} :
               \E r \in Rand :
                 \E res \in {upsertPosts(posts, file, disk, uniquePosts, now,
                                         [i \in 1..Draws(posts, uniquePosts) |-> r])} :
                    /\ posts' = res.posts
                    /\ file' = res.file
                    /\ fetch' = [phase |-> "done", units |-> units, result |-> uniquePosts]
                    /\ last' = [op |-> "fetchAllPosts", at |-> now, saves |-> res.saves,
                                before |-> Len(posts),
                                again |-> (fetch.phase = "done" /\
                                           \A u \in UnitNames :
                                               fetch.units[u].state = units[u].state)]
                    /\ millis' = ms
    /\ UNCHANGED <<disk, now, retry, sys, adapt, backups, proc, term, loop, client>>

\* Aggregation cycles one after the other against sources that do not change.
NextCycles ==
    \/ RunCycle

SpecCycles == Init /\ [][NextCycles]_vars

\* ------------------------------------------------------------ scheduled jobs
\* The server and its timers on a disk that may reject writes.
NextDaily ==
    \/ Listen
    \/ DiskChange
    \/ PollFires
    \/ Connect
    \/ Disconnect
    \/ \E g \in {"startup", "poll"} : CycleCompletes(g)
    \/ Midnight

SpecDaily == Init /\ [][NextDaily]_vars

\* --------------------------------------------- the loop of a multi-query adapter
\* fetchHackerNews, fetchGitHub or fetchDevTo is called: the first sub-query
\* is sent.
CallAdapter(a) ==
    /\ loop.phase \in {"idle", "returned"}
    /\ loop' = [adapter |-> a, q |-> 1, phase |-> "requesting", gap |-> 0, outcomes |-> <<>>]
    /\ UNCHANGED <<posts, file, disk, now, last, fetch, retry, sys, adapt, backups, proc, term, millis, client>>

\* The sub-query is answered: its hits are pushed and the loop awaits its
\* setTimeout.
QueryAnswered ==
    /\ loop.phase = "requesting"
    /\ loop' = [loop EXCEPT !.phase = "delaying", !.outcomes = Append(@, "ok")]
    /\ UNCHANGED <<posts, file, disk, now, last, fetch, retry, sys, adapt, backups, proc, term, millis, client>>

\* The sub-query fails (timeout after 8000 ms, HTTP error, a body that makes
\* the mapping throw): the catch block.
QueryFailed ==
    /\ loop.phase = "requesting"
    /\ loop' = afterFailure(loop)
    /\ UNCHANGED <<posts, file, disk, now, last, fetch, retry, sys, adapt, backups, proc, term, millis, client>>

\* The setTimeout of the try block fires: the next sub-query is sent, or the
\* results are returned after the last one.
DelayElapsed ==
    /\ loop.phase = "delaying"
    /\ loop' = IF loop.q < Queries
               THEN [loop EXCEPT !.q = @ + 1, !.phase = "requesting",
                                 !.gap = DelayMs(loop.adapter)]
               ELSE [loop EXCEPT !.phase = "returned"]
    /\ UNCHANGED <<posts, file, disk, now, last, fetch, retry, sys, adapt, backups, proc, term, millis, client>>

NextAdapter ==
    \/ \E a \in MultiQuery : CallAdapter(a)
    \/ QueryAnswered
    \/ QueryFailed
    \/ DelayElapsed

SpecAdapter == Init /\ [][NextAdapter]_vars

\* ------------------------------------------------------- one cycle to its end
\* The staggered timer of target s fires: fetchSubredditPosts is called.
StaggerFires(s) ==
    /\ fetch.phase = "running"
    /\ retry[s].phase = "idle"
    /\ retry' = [retry EXCEPT ![s] = [@ EXCEPT !.phase = "requesting", !.attempt = 1,
                                               !.requests = 1]]
    /\ UNCHANGED <<posts, file, disk, now, last, fetch, sys, adapt, backups, proc, term, millis, loop, client>>

\* The request of target s is answered: fetchSubredditPosts returns the posts
\* and the timer callback resolves the promise of the target with them.
TargetAnswered(s) ==
    /\ fetch.phase = "running"
    /\ retry[s].phase = "requesting"
    /\ retry' = [retry EXCEPT ![s] = [@ EXCEPT !.phase = "returned", !.ok = TRUE,
                                               !.result = Response(s, now)]]
    /\ fetch' = [fetch EXCEPT !.units[s] = Answered(Response(s, now))]
    /\ UNCHANGED <<posts, file, disk, now, last, sys, adapt, backups, proc, term, millis, loop, client>>

\* The request of target s fails or hits its timeout of 10000 ms.
TargetFailed(s) ==
    /\ fetch.phase = "running"
    /\ retry[s].phase = "requesting"
    /\ \E out \in {attemptFailed(retry[s])} :
         /\ retry' = [retry EXCEPT ![s] = out.retry]
         /\ fetch' = [fetch EXCEPT !.units[s] = out.unit]
    /\ UNCHANGED <<posts, file, disk, now, last, sys, adapt, backups, proc, term, millis, loop, client>>

\* The timer set by the catch block fires: the loop goes to its next attempt.
BackoffFires(s) ==
    /\ fetch.phase = "running"
    /\ retry[s].phase = "waiting"
    /\ retry' = [retry EXCEPT ![s] = [@ EXCEPT !.phase = "requesting", !.waited = @ + 1,
                                               !.attempt = @ + 1, !.requests = @ + 1]]
    /\ UNCHANGED <<posts, file, disk, now, last, fetch, sys, adapt, backups, proc, term, millis, loop, client>>

\* Every step of one fetchAllPosts: the adapters' requests, the staggered
\* targets with their attempts and waits, and the end of Promise.all.
NextCycle ==
    \/ StartFetch
    \/ \E u \in UnitNames \ ({"curated"} \cup Targets) : Settle(u)
    \/ \E s \in Targets : StaggerFires(s)
    \/ \E s \in Targets : TargetAnswered(s)
    \/ \E s \in Targets : TargetFailed(s)
    \/ \E s \in Targets : BackoffFires(s)
    \/ FinishFetch

SpecCycle == Init /\ [][NextCycle]_vars

\* A step of a cycle that waits for the network or for a timer.
Progress ==
    \/ \E u \in UnitNames \ ({"curated"} \cup Targets) : Settle(u)
    \/ \E s \in Targets : StaggerFires(s)
    \/ \E s \in Targets : TargetAnswered(s)
    \/ \E s \in Targets : TargetFailed(s)
    \/ \E s \in Targets : BackoffFires(s)

\* Every promise handed to Promise.all is settled: the enabling condition of
\* FinishFetch.
AllSettled ==
    /\ fetch.phase = "running"
    /\ \A u \in UnitNames : fetch.units[u].state # "pending"

\* Every request is answered or hits its timeout and every timer fires: while
\* such a step is possible, one is taken (no step undoes another, so none can
\* be starved).  The code after `await Promise.all` is synchronous and runs
\* once the promises are settled: weak fairness of FinishFetch, written with
\* its enabling condition.
SpecCycleFair == SpecCycle /\ WF_vars(Progress) /\ []<>(~AllSettled)

\* -------------------------------------------------------------------- reads
\* Sort keys and orders a caller may name, recognised or not, on one page that
\* holds every record, for a window that leaves the oldest record out and for
\* the window of the request handler.
ReadOptions ==
    [search : {<<>>}, subreddit : {<<>>},
     sortBy : {"created_at", "upvotes", "num_comments", "title"},
     sortOrder : {"desc", "asc", "newest"}, page : {1}, limit : {DefaultLimit},
     minUpvotes : {0}, daysBack : {WeekDays - 1, RetentionDays}]

\* db.getPosts(options)
ReadPosts ==
    \E o \in ReadOptions :
        /\ last' = [op |-> "getPosts", arg |-> o, at |-> now,
                    ret |-> getPosts(posts, now, o), saves |-> 0]
        /\ posts' = postsAfterGetPosts(posts, now, o)
        /\ UNCHANGED <<file, disk, now, aggregator>>

\* db.getPost(redditId), for an id that may be stored and one that is not.
ReadPost ==
    \E redditId \in {"t3_a", "t3_zz"} :
        /\ last' = [op |-> "getPost", arg |-> redditId, at |-> now,
                    ret |-> getPost(posts, redditId), saves |-> 0]
        /\ UNCHANGED <<posts, file, disk, now, aggregator>>

\* The store filled with records of different ages and scores, and read.
NextReads ==
    \/ UpsertAged
    \/ ReadPosts
    \/ ReadPost
    \/ GetStats

SpecReads == Init /\ [][NextReads]_vars

\* ------------------------------------------------------------ GET /api/posts
\* JavaScript numbers: an integer, NaN, or Infinity.
Num(n) == [num |-> n]

NaN == [nan |-> TRUE]

Infinity == [inf |-> TRUE]

DigitChars == <<"0", "1", "2", "3", "4", "5", "6", "7", "8", "9">>

IsDigit(c) == \E d \in 1..Len(DigitChars) : DigitChars[d] = c

DigitVal(c) == (CHOOSE d \in 1..Len(DigitChars) : DigitChars[d] = c) - 1

\* The value of the longest prefix of digits of s, read after acc.
RECURSIVE DigitsValue(_, _)
DigitsValue(s, acc) ==
    IF s = <<>> \/ ~IsDigit(Head(s)) THEN acc
    ELSE DigitsValue(Tail(s), acc * 10 + DigitVal(Head(s)))

\* parseInt(s) for a string of the query: an optional minus sign, then the
\* digits up to the first other character; NaN when there is no digit.
ParseInt(s) ==
    LET negative == s # <<>> /\ Head(s) = "-"
        body == IF negative THEN Tail(s) ELSE s
    IN  IF body = <<>> \/ ~IsDigit(Head(body)) THEN NaN
        ELSE Num((IF negative THEN -1 ELSE 1) * DigitsValue(body, 0))

\* Math.min(a, cap) for an integer cap.
MathMin(a, cap) ==
    IF a = NaN THEN NaN ELSE IF a.num < cap THEN a ELSE Num(cap)

\* a * b and a + b, NaN when an operand is.
Times2(a, b) == IF a = NaN \/ b = NaN THEN NaN ELSE Num(a.num * b.num)

Plus(a, b) == IF a = NaN \/ b = NaN THEN NaN ELSE Num(a.num + b.num)

\* a < b: false when an operand is NaN.
Less(a, b) ==
    IF a = NaN \/ b = NaN THEN FALSE
    ELSE IF b = Infinity THEN TRUE
    ELSE a.num < b.num

\* Math.ceil(total / limit) for any limit.
JsCeilDiv(total, limit) ==
    IF limit = NaN THEN NaN
    ELSE IF limit.num = 0 THEN (IF total = 0 THEN NaN ELSE Infinity)
    ELSE IF limit.num > 0 THEN Num(CeilDiv(total, limit.num))
    ELSE Num(0 - (total \div (0 - limit.num)))

\* An index argument of slice: NaN counts as 0.
ToIndex(a) == IF a = NaN THEN 0 ELSE a.num

\* What the handler reads from req.query for page and for limit: nothing, or
\* a string.
RawParams ==
    {Undefined, <<"2">>, <<"0">>, <<"-", "3">>, <<"a", "b">>, <<"5", "0", "0">>, <<"1", "x">>}

\* The page and limit the handler passes to db.getPosts.
pageOf(raw) == IF raw = Undefined THEN Num(1) ELSE ParseInt(raw)

limitOf(raw) == MathMin(IF raw = Undefined THEN Num(DefaultLimit) ELSE ParseInt(raw), LimitCap)

\* db.getPosts with the handler's options: the default filters and sort, and
\* the pagination computed on JavaScript numbers.
getPostsPage(ps, t, page, limit) ==
    LET o == [search |-> <<>>, subreddit |-> <<>>, sortBy |-> "created_at",
              sortOrder |-> "desc", minUpvotes |-> 0, daysBack |-> RetentionDays]
        filtered == SortPosts(FilterPosts(ps, t, o), o.sortBy, o.sortOrder)
        total == Len(filtered)
        totalPages == JsCeilDiv(total, limit)
        offset == Times2(Plus(page, Num(-1)), limit)
    IN  [posts |-> Slice(filtered, ToIndex(offset), ToIndex(Plus(offset, limit))),
         pagination |-> [page |-> page, limit |-> limit, total |-> total,
                         totalPages |-> totalPages,
                         hasNext |-> Less(page, totalPages),
                         hasPrev |-> Less(Num(1), page)]]

\* GET /api/posts?page=..&limit=..: the handler parses, calls the store and
\* answers with res.json({ success: true, ... }).
GetApiPosts ==
    \E page \in RawParams, limit \in RawParams :
        /\ last' = [op |-> "GET /api/posts", at |-> now, status |-> 200,
                    page |-> pageOf(page), limit |-> limitOf(limit),
                    ret |-> getPostsPage(posts, now, pageOf(page), limitOf(limit)),
                    saves |-> 0]
        /\ UNCHANGED <<posts, file, disk, now, aggregator>>

\* The store filled and queried over HTTP.
NextApi ==
    \/ UpsertAged
    \/ GetApiPosts

SpecApi == Init /\ [][NextApi]_vars

\* ------------------------------------------------------------ the dashboard
\* The first render: the socket effect subscribes with the fetchPosts of this
\* render, and the fetch effect calls it.
Mount ==
    /\ ~client.mounted
    /\ client' = [sendRequest(client, InitialParams) EXCEPT !.mounted = TRUE]
    /\ UNCHANGED <<posts, file, disk, now, last, fetch, retry, sys, adapt, backups, proc, term, millis, loop>>

\* The user picks a sort key: setSortBy, setPage(1); the render that follows
\* builds a new fetchPosts and the fetch effect calls it.
SelectSort(k) ==
    /\ client.mounted
    /\ Len(client.inflight) < MaxInFlight
    /\ [sortBy |-> k, page |-> 1] # client.params
    /\ client' = [sendRequest(client, [sortBy |-> k, page |-> 1])
                     EXCEPT !.params = [sortBy |-> k, page |-> 1]]
    /\ UNCHANGED <<posts, file, disk, now, last, fetch, retry, sys, adapt, backups, proc, term, millis, loop>>

\* The user goes to another page: setPage; render, new fetchPosts, effect.
SelectPage(n) ==
    /\ client.mounted
    /\ Len(client.inflight) < MaxInFlight
    /\ n # client.params.page
    /\ client' = [sendRequest(client, [client.params EXCEPT !.page = n])
                     EXCEPT !.params = [client.params EXCEPT !.page = n]]
    /\ UNCHANGED <<posts, file, disk, now, last, fetch, retry, sys, adapt, backups, proc, term, millis, loop>>

\* socket.on('posts-updated'): the handler registered by the first render
\* calls the fetchPosts it closed over, whose parameters are those of that
\* render.
OnPostsUpdated ==
    /\ client.mounted
    /\ Len(client.inflight) < MaxInFlight
    /\ client' = sendRequest(client, InitialParams)
    /\ UNCHANGED <<posts, file, disk, now, last, fetch, retry, sys, adapt, backups, proc, term, millis, loop>>

\* One of the requests in flight is answered, in any order, or fails.
ResponseArrives ==
    /\ \E i \in 1..Len(client.inflight) :
         \E ok \in BOOLEAN :
            client' = onResponse(client, i, ok)
    /\ UNCHANGED <<posts, file, disk, now, last, fetch, retry, sys, adapt, backups, proc, term, millis, loop>>

NextClient ==
    \/ Mount
    \/ \E k \in SortKeys : SelectSort(k)
    \/ \E n \in 1..MaxPage : SelectPage(n)
    \/ OnPostsUpdated
    \/ ResponseArrives

SpecClient == Init /\ [][NextClient]_vars

\* ------------------------------------------------------------------ claims
\* The positions in ps of the records with external id rid.
Holding(ps, rid) == {i \in 1..Len(ps) : ps[i].reddit_id = rid}

\* The step is a call of operation op (the clock and the disk stand still
\* during a call, and the call leaves its record in last).
Calls(op) == last'.op = op /\ now' = now /\ disk' = disk

\* C1: starting from the empty store, after any sequence of upsertPost and
\* upsertPosts calls no two records of the collection have the same external id.
C1_UniqueExternalIds ==
    \A i, j \in 1..Len(posts) : posts[i].reddit_id = posts[j].reddit_id => i = j

\* A batch that names one external id twice, from two sources, has been upserted
\* into a store that also holds another id.
C1_Witness ==
    /\ last.op = "upsertPosts"
    /\ Len(last.arg) = 2
    /\ last.arg[1].reddit_id = last.arg[2].reddit_id
    /\ last.arg[1].source # last.arg[2].source
    /\ Len(posts) = 2

\* A record without its fetched_at.
WithoutFetchedAt(p) == [f \in DOMAIN p \ {"fetched_at"} |-> p[f]]

\* C2: a second upsertPosts call with the list of the call before it leaves the
\* number of records unchanged and every field of every record other than
\* fetched_at as the first call left it.
C2_SecondUpsertChangesOnlyFetchedAt ==
    [][(Calls("upsertPosts") /\ last.op = "upsertPosts" /\ last'.arg = last.arg)
          => /\ Len(posts') = Len(posts)
             /\ \A i \in 1..Len(posts) :
                    WithoutFetchedAt(posts'[i]) = WithoutFetchedAt(posts[i])]_vars

\* The same list, holding one external id twice with two scores, has been
\* upserted twice, the second time at a later time than the first.
C2_Witness ==
    /\ last.op = "upsertPosts"
    /\ last.again
    /\ Len(last.arg) = 2
    /\ last.arg[1].reddit_id = last.arg[2].reddit_id
    /\ last.arg[1].upvotes # last.arg[2].upvotes
    /\ \E i \in 1..Len(posts) : posts[i].id[1] < posts[i].fetched_at /\ posts[i].fetched_at = last.at

\* C3: an upsertPost of an external id the store holds leaves the record with
\* the surrogate id it had; an upsertPost of an external id the store does not
\* hold appends a record whose surrogate id is generated at that moment.
C3_SurrogateIdKept ==
    [][Calls("upsertPost")
          => LET rid == last'.arg.reddit_id
             IN  IF Holding(posts, rid) # {}
                 THEN /\ Len(posts') = Len(posts)
                      /\ \A i \in Holding(posts, rid) :
                            posts'[i].id = posts[i].id /\ last'.ret.id = posts[i].id
                 ELSE /\ Len(posts') = Len(posts) + 1
                      /\ posts'[Len(posts')].reddit_id = rid
                      /\ posts'[Len(posts')].id[1] = now
                      /\ posts'[Len(posts')].id[2] \in Rand]_vars

\* A record has been upserted again at a time later than its insertion and
\* carries the surrogate id of the insertion.
C3_Witness ==
    /\ last.op = "upsertPost"
    /\ last.index > 0
    /\ last.ret.id = last.old.id
    /\ last.ret.id[1] < last.at

\* C4, as claimed: an upsert of a stored external id leaves the record's
\* created_at as it was.
C4_CreatedAtPreserved ==
    (last.op = "upsertPost" /\ last.index > 0)
        => posts[last.index].created_at = last.old.created_at

\* C4, amended: an upsert of a stored external id with another created_at keeps
\* the record's surrogate id but not its created_at, which becomes the incoming
\* value.
C4_CreatedAtNotPreserved ==
    (last.op = "upsertPost" /\ last.index > 0
        /\ last.arg.created_at # last.old.created_at)
        => /\ posts[last.index].created_at # last.old.created_at
           /\ posts[last.index].created_at = last.arg.created_at
           /\ posts[last.index].id = last.old.id

\* A stored record created at a later time has been upserted with an earlier
\* created_at.
C4_Witness ==
    /\ last.op = "upsertPost"
    /\ last.index > 0
    /\ last.arg.created_at < last.old.created_at

\* C5: after every upsert of a stored external id the record's created_at is
\* the created_at of the incoming item.
C5_CreatedAtOverwritten ==
    (last.op = "upsertPost" /\ last.index > 0)
        => \A i \in Holding(posts, last.arg.reddit_id) :
              posts[i].created_at = last.arg.created_at

\* A stored record has been upserted with a later created_at than it had.
C5_Witness ==
    /\ last.op = "upsertPost"
    /\ last.index > 0
    /\ last.arg.created_at > last.old.created_at

\* C6: a step that upserts an external id sets the record's fetched_at to the
\* time of the call; every other step leaves the fetched_at of the records it
\* keeps; and no step lowers the fetched_at of a record.
C6_FetchedAtIsLastUpsert ==
    [][\A i \in 1..Len(posts') :
          LET p == posts'[i]
              upserted == Calls("upsertPost") /\ last' # last /\ last'.arg.reddit_id = p.reddit_id
          IN  /\ upserted => p.fetched_at = now
              /\ \A j \in Holding(posts, p.reddit_id) :
                    /\ ~upserted => p.fetched_at = posts[j].fetched_at
                    /\ p.fetched_at >= posts[j].fetched_at]_vars

\* A record fetched at an earlier time has been upserted again: its fetched_at
\* is the time of the second upsert.
C6_Witness ==
    /\ last.op = "upsertPost"
    /\ last.index > 0
    /\ last.old.fetched_at < last.at
    /\ posts[last.index].fetched_at = last.at

\* C7: after an external id is upserted a second time with another score, the
\* store holds exactly one record with that id and its score is the second one.
C7_LastScoreWins ==
    (last.op = "upsertPost" /\ last.index > 0 /\ last.arg.upvotes # last.old.upvotes)
        => /\ Cardinality(Holding(posts, last.arg.reddit_id)) = 1
           /\ \A i \in Holding(posts, last.arg.reddit_id) : posts[i].upvotes = last.arg.upvotes

\* The id "gh_42" has been upserted with a higher and then with a lower score.
C7_Witness ==
    /\ last.op = "upsertPost"
    /\ last.index > 0
    /\ last.arg.reddit_id = "gh_42"
    /\ last.arg.upvotes < last.old.upvotes

\* C8: the record upsertPost stores and returns carries the source of the item.
C8_SourceStored ==
    last.op = "upsertPost"
        => /\ "source" \in DOMAIN last.ret
           /\ \A i \in Holding(posts, last.arg.reddit_id) : "source" \in DOMAIN posts[i]

\* C9: getPosts with daysBack D returns no item created before the time of the
\* query minus D days, and its total counts no such item.
C9_QueryExcludesOld ==
    last.op = "getPosts"
        => LET cutoff == last.at - last.arg.daysBack
               recent == {i \in 1..Len(posts) : posts[i].created_at >= cutoff}
           IN  /\ \A k \in 1..Len(last.ret.posts) : last.ret.posts[k].created_at >= cutoff
               /\ last.ret.pagination.total <= Cardinality(recent)
               /\ last.arg.minUpvotes = 0 => last.ret.pagination.total = Cardinality(recent)

\* A query has returned an item while the store held an item older than its cutoff.
C9_Witness ==
    /\ last.op = "getPosts"
    /\ Len(last.ret.posts) = 1
    /\ last.ret.pagination.total = 1
    /\ \E i \in 1..Len(posts) : posts[i].created_at < last.at - last.arg.daysBack

\* What deleteOldPosts(daysBack) at time t keeps of ps.
Recent(ps, t, daysBack) ==
    LET NotOld(p) == ~(p.created_at < t - daysBack) IN SelectSeq(ps, NotOld)

\* C10, as claimed: deleteOldPosts removes exactly the records created before the
\* cutoff, keeps the others unchanged and in order, returns the number removed,
\* and rewrites the file exactly when it removed a record, the file then holding
\* the reduced collection.
C10_PruneRewritesFile ==
    [][Calls("deleteOldPosts")
          => /\ posts' = Recent(posts, now, last'.arg)
             /\ last'.ret = Len(posts) - Len(posts')
             /\ last'.ret > 0 => file' = FileOf(posts')
             /\ last'.ret = 0 => file' = file]_vars

\* C10, amended: as above, but the rewrite is one attempt to write the file, made
\* exactly when a record was removed; the file holds the reduced collection when
\* the write succeeds.
C10_PruneAttemptsRewrite ==
    [][Calls("deleteOldPosts")
          => /\ posts' = Recent(posts, now, last'.arg)
             /\ last'.ret = Len(posts) - Len(posts')
             /\ last'.saves = (IF last'.ret > 0 THEN 1 ELSE 0)
             /\ (last'.ret > 0 /\ disk = "ok") => file' = FileOf(posts')
             /\ last'.ret = 0 => file' = file]_vars

\* deleteOldPosts has removed one record and kept another, and the file holds
\* the one kept.
C10_Witness ==
    /\ last.op = "deleteOldPosts"
    /\ last.ret = 1
    /\ Len(posts) = 1
    /\ file = FileOf(posts)

\* Two characters that are the same letter, whatever their case.
SameLetter(c, d) ==
    \/ c = d
    \/ \E k \in 1..Len(UpperCase) : {c, d} = {UpperCase[k], LowerCase[k]}

\* needle occurs in hay when case is disregarded.
ContainsFolded(hay, needle) ==
    \E i \in 0..(Len(hay) - Len(needle)) :
        \A k \in 1..Len(needle) : SameLetter(hay[i + k], needle[k])

\* Record p is inside the window of query o made at time t, comes from an
\* origin that contains o.subreddit and has a score of at least o.minUpvotes.
Matching(p, o, t) ==
    /\ p.created_at >= t - o.daysBack
    /\ p.upvotes >= o.minUpvotes
    /\ ContainsFolded(p.subreddit, o.subreddit)

\* The pages 1..k of query o, one after the other.
RECURSIVE PagesUpTo(_, _, _, _)
PagesUpTo(ps, t, o, k) ==
    IF k = 0 THEN <<>>
    ELSE PagesUpTo(ps, t, o, k - 1) \o getPosts(ps, t, [o EXCEPT !.page = k]).posts

\* C12: for N matching items, page size L >= 1 and page p >= 1, getPosts reports
\* total = N, totalPages = ceil(N / L), hasNext = (p < totalPages) and
\* hasPrev = (p > 1); the pages 1..totalPages one after the other hold every
\* matching record exactly once, newest first, and the slice returned is the
\* items (p-1)*L+1 .. min(p*L, N) of that list.
C12_Pagination ==
    (last.op = "getPosts" /\ last.arg.limit >= 1 /\ last.arg.page >= 1) =>
        LET o == last.arg
            pg == last.ret.pagination
            L == o.limit
            p == o.page
            matching == {i \in 1..Len(posts) : Matching(posts[i], o, last.at)}
            N == Cardinality(matching)
            all == PagesUpTo(posts, last.at, o, pg.totalPages)
            upTo == IF p * L < N THEN p * L ELSE N
        IN  /\ pg.total = N
            /\ pg.totalPages * L >= N
            /\ (pg.totalPages - 1) * L < N
            /\ pg.hasNext = (p < pg.totalPages)
            /\ pg.hasPrev = (p > 1)
            /\ Len(all) = N
            /\ \A i \in matching : \E j \in 1..N : all[j] = posts[i]
            /\ \A j, k \in 1..N : j < k => all[j].created_at >= all[k].created_at
            /\ last.ret.posts = SubSeq(all, (p - 1) * L + 1, upTo)

\* Page 2 of three records read two at a time: the last page, one record long.
C12_Witness ==
    /\ last.op = "getPosts"
    /\ last.arg.limit = 2
    /\ last.arg.page = 2
    /\ last.ret.pagination.total = 3
    /\ last.ret.pagination.totalPages = 2
    /\ Len(last.ret.posts) = 1
    /\ last.ret.pagination.hasPrev
    /\ ~last.ret.pagination.hasNext

\* C13: a request for a page beyond the last one returns an empty slice and
\* pagination metadata with the page and limit asked for, the true total and
\* hasNext = false, and leaves the collection and the file as they were.
C13_PageBeyondLast ==
    [][(Calls("getPosts") /\ last'.arg.page > last'.ret.pagination.totalPages) =>
        LET o == last'.arg
            pg == last'.ret.pagination
        IN  /\ last'.ret.posts = <<>>
            /\ pg.hasNext = FALSE
            /\ pg.page = o.page
            /\ pg.limit = o.limit
            /\ pg.total = Cardinality({i \in 1..Len(posts) : Matching(posts[i], o, now)})
            /\ pg.totalPages \in Nat
            /\ pg.hasPrev = (o.page > 1)
            /\ posts' = posts
            /\ file' = file]_vars

\* Page 3 was asked of a collection of two records read one at a time.
C13_Witness ==
    /\ last.op = "getPosts"
    /\ last.arg.page = 3
    /\ last.arg.limit = 1
    /\ last.ret.pagination.totalPages = 2
    /\ last.ret.posts = <<>>
    /\ Len(posts) = 2

\* C14: with an origin filter X and a minimum score M on a page that holds every
\* match, getPosts returns, each once, exactly the records whose origin contains
\* X case-insensitively and whose score is at least M: the records returned
\* both with X alone and with M alone.
C14_FiltersIntersect ==
    (last.op = "getPosts" /\ last.arg.limit = LimitCap) =>
        LET o == last.arg
            Set(s) == {s[i] : i \in 1..Len(s)}
            got == last.ret.posts
            byOrigin == getPosts(posts, last.at, [o EXCEPT !.minUpvotes = 0]).posts
            byScore == getPosts(posts, last.at, [o EXCEPT !.subreddit = <<>>]).posts
        IN  /\ Set(got) = {posts[i] : i \in {k \in 1..Len(posts) : Matching(posts[k], o, last.at)}}
            /\ Len(got) = Cardinality(Set(got))
            /\ Set(got) = Set(byOrigin) \cap Set(byScore)

\* Three records of three origins were filtered by a lower-case letter and a
\* score of 3: the letter keeps two of them, the score two, both together one.
C14_Witness ==
    /\ last.op = "getPosts"
    /\ last.arg.subreddit = <<"i">>
    /\ last.arg.minUpvotes = 3
    /\ Len(posts) = 3
    /\ Cardinality({posts[i].subreddit : i \in 1..Len(posts)}) = 3
    /\ Len(last.ret.posts) = 1
    /\ last.ret.posts[1].subreddit = <<"G", "i", "t">>

\* C17: upsertPosts of a batch of n >= 1 items, the one store call of an
\* aggregation cycle, rewrites the backing file exactly once, after the whole
\* batch, and never once per item.
C17_OneWritePerBatch ==
    (last.op = "upsertPosts" /\ Len(last.arg) >= 1) => last.saves = 1

\* The places <<request, index>> of the items answered in the cycle, and the
\* order in which the code lays them out: curated list, blog, HackerNews,
\* GitHub, Dev.to, then the subreddits in list order.
Places ==
    UNION {{<<i, k>> : k \in 1..Len(fetch.units[FetchUnits[i]].items)} :
              i \in 1..Len(FetchUnits)}

ItemAt(o) == fetch.units[FetchUnits[o[1]]].items[o[2]]

Earlier(a, b) == a[1] < b[1] \/ (a[1] = b[1] /\ a[2] < b[2])

FirstPlace(rid) ==
    CHOOSE o \in Places :
        /\ ItemAt(o).reddit_id = rid
        /\ \A o2 \in Places : ItemAt(o2).reddit_id = rid => ~Earlier(o2, o)

\* C15: the list fetchAllPosts returns holds every external id answered in the
\* cycle exactly once; the item kept for an id is its first occurrence in the
\* concatenation curated, blog, HackerNews, GitHub, Dev.to, Reddit; and the
\* kept items stand in the order of that concatenation.
C15_FirstOccurrenceKept ==
    fetch.phase = "done" =>
        LET res == fetch.result
        IN  /\ \A j, k \in 1..Len(res) : res[j].reddit_id = res[k].reddit_id => j = k
            /\ {res[j].reddit_id : j \in 1..Len(res)} = {ItemAt(o).reddit_id : o \in Places}
            /\ \A j \in 1..Len(res) : res[j] = ItemAt(FirstPlace(res[j].reddit_id))
            /\ \A j, k \in 1..Len(res) :
                    j < k => Earlier(FirstPlace(res[j].reddit_id), FirstPlace(res[k].reddit_id))

\* A cycle in which every request was answered has returned: four of the
\* thirteen items answered repeated an id and were dropped.
C15_Witness ==
    /\ fetch.phase = "done"
    /\ \A u \in UnitNames : fetch.units[u].state = "ok"
    /\ Cardinality(Places) = 13
    /\ Len(fetch.result) = 9
    /\ fetch.result[1].reddit_id = "oc_site"
    /\ fetch.result[9].reddit_id = "t3_b"

C20_RetryWithBackoff ==
    [][\A s \in Targets :
        /\ retry'[s].requests <= 3
        /\ retry[s].phase = "returned" => retry'[s] = retry[s]
        /\ retry'[s].requests # retry[s].requests =>
              /\ retry'[s].requests = retry[s].requests + 1
              /\ retry[s].requests = 1 => (retry[s].phase = "waiting" /\ retry[s].waited = 3)
              /\ retry[s].requests = 2 => (retry[s].phase = "waiting" /\ retry[s].waited = 9)
        /\ (retry[s].phase = "waiting" /\ retry'[s].phase = "waiting") =>
              retry'[s].requests = retry[s].requests
        /\ (retry[s].phase = "requesting" /\ retry[s].requests = 3
                /\ retry'[s].phase # "requesting") =>
              /\ retry'[s].phase = "returned"
              /\ retry'[s].ok \/ retry'[s].result = <<>>
        /\ (retry'[s].phase = "returned" /\ ~retry'[s].ok) =>
              (retry'[s].requests = 3 /\ retry'[s].result = <<>>)]_vars

\* One subreddit has returned the empty list after three failed requests, the
\* other was answered at its second request.
C20_Witness ==
    /\ retry["r1"].phase = "returned"
    /\ ~retry["r1"].ok
    /\ retry["r1"].requests = 3
    /\ retry["r1"].result = <<>>
    /\ retry["r2"].phase = "returned"
    /\ retry["r2"].ok
    /\ retry["r2"].requests = 2
    /\ retry["r2"].result # <<>>

\* A record with external id rid is held whose created_at lies before the
\* retention window of RetentionDays days.
StaleHeld(rid) ==
    \E i \in 1..Len(posts) :
        posts[i].reddit_id = rid /\ posts[i].created_at < now - RetentionDays

\* C11: in the running server (poll timer, daily timer, HTTP and socket
\* handlers) every stored item whose created_at has fallen outside the 30-day
\* retention window is eventually removed from the store: no record of its
\* external id stays held out of the window for ever.
C11_StaleEventuallyPruned ==
    \A rid \in {"gh_42", "oc_site"} : StaleHeld(rid) ~> ~StaleHeld(rid)

\* C18: at most one aggregation cycle is in flight at any time, whether cycles
\* are started by the poll interval, POST /api/refresh or 'request-refresh'.
C18_OneCycleInFlight ==
    sys.cycles["startup"] + sys.cycles["poll"] + sys.cycles["refresh"]
        + sys.cycles["socket"] <= 1

\* C19: every completed cycle, the initial one of startPolling included, is
\* followed by exactly one 'posts-updated' broadcast, whose count is the number
\* of unique items the cycle returned.
C19_EveryCycleBroadcasts ==
    sys.done.trigger # "none" =>
        /\ Len(sys.done.events) = 1
        /\ sys.done.events[1].event = "posts-updated"
        /\ sys.done.events[1].count = sys.done.count

\* A keyword occurs in s, whatever the case of the letters.
MentionsKeyword(s) == \E kw \in Keywords : ContainsFolded(s, kw)

\* The channel is in the dedicated set.
IsDedicated(ch) == \E d \in DedicatedSubs : Len(d) = Len(ch.name) /\ ContainsFolded(ch.name, d)

\* C21: for every channel that is not dedicated (general subreddits, general
\* Dev.to tags, HackerNews, GitHub) every item the adapter returns contains a
\* configured keyword, compared case-insensitively, in its title or its body.
C21_KeptItemsMentionKeyword ==
    (adapt.op = "response" /\ ~IsDedicated(adapt.channel)
            /\ adapt.channel.source \in {"reddit", "devto", "hackernews", "github"}) =>
        \A k \in 1..Len(adapt.items) :
            MentionsKeyword(adapt.items[k].title) \/ MentionsKeyword(adapt.items[k].content)

\* C22 as stated: for a dedicated channel every entry of a successful response
\* is kept, whatever its keywords and whatever its age.
C22_DedicatedKeepsAll ==
    (adapt.op = "response" /\ IsDedicated(adapt.channel)) =>
        Len(adapt.items) = Len(adapt.raws)

\* C22: for a dedicated channel the adapter keeps, in order, every entry of the
\* response whether or not it mentions a keyword, except that the subreddit
\* adapter first drops the entries created more than 30 days ago.
C22_DedicatedKeepsAllRecent ==
    (adapt.op = "response" /\ IsDedicated(adapt.channel)) =>
        LET recent == {k \in 1..Len(adapt.raws) :
                          adapt.channel.source = "reddit" =>
                              adapt.raws[k].created >= adapt.at - 30}
        IN  /\ Len(adapt.items) = Cardinality(recent)
            /\ \A k \in recent :
                  LET pos == Cardinality({j \in recent : j <= k})
                  IN  /\ adapt.items[pos].content = adapt.raws[k].body
                      /\ adapt.items[pos].created_at = adapt.raws[k].created
                      /\ LET title == adapt.items[pos].title
                             given == adapt.raws[k].title
                         IN  SubSeq(title, Len(title) - Len(given) + 1, Len(title)) = given

\* The dedicated subreddit answered with a fresh post that mentions no keyword
\* and a post 31 days old that does: the first is kept, the second dropped.
C22_Witness ==
    /\ adapt.op = "response"
    /\ adapt.channel.source = "reddit"
    /\ IsDedicated(adapt.channel)
    /\ Len(adapt.raws) = 2
    /\ adapt.raws[1].title = <<"R", "u", "s", "t">>
    /\ adapt.raws[1].body = <<>>
    /\ adapt.raws[1].created = adapt.at
    /\ adapt.raws[2].title = <<"C", "l", "a", "u", "d", "e">>
    /\ adapt.raws[2].created = adapt.at - 31
    /\ Len(adapt.items) = 1
    /\ adapt.items[1].title = <<"R", "u", "s", "t">>


InstantOf(t, late) == 2 * t + (IF late THEN 1 ELSE 0)

MoreThanRetentionBefore(day, t, late) ==
    InstantOf(t, late) - InstantOf(day, FALSE) > 2 * BackupRetentionDays

\* C26: a successful backup() leaves collection and file unchanged, writes a
\* snapshot dated today that equals the full collection, leaves no snapshot
\* dated more than 30 days before now, and keeps every snapshot dated within
\* the last 30 days.
C26_BackupSnapshotsAndPrunes ==
    [][(Calls("backup") /\ last'.ret # NoBackupFile) =>
          /\ posts' = posts /\ file' = file
          /\ last'.ret = [backupFile |-> now]
          /\ now \in DOMAIN backups' /\ backups'[now] = FileOf(posts)
          /\ \A day \in DOMAIN backups' :
                ~MoreThanRetentionBefore(day, now, last'.late)
          /\ \A day \in DOMAIN backups \ {now} :
                ~MoreThanRetentionBefore(day, now, last'.late) =>
                    day \in DOMAIN backups' /\ backups'[day] = backups[day]]_vars

\* A backup at midnight sharp has written today's snapshot of one record,
\* removed the snapshot of 31 days ago and kept the one of 30 days ago.
C26_Witness ==
    /\ last.op = "backup" /\ last.ret = [backupFile |-> now] /\ ~last.late
    /\ now = 0
    /\ backups[0] = FileOf(posts) /\ Len(posts) = 1
    /\ DOMAIN backups = {0 - BackupRetentionDays, 0}
    /\ backups[0 - BackupRetentionDays] = Truncated

\* The sum of the counts of a per-origin table.
RECURSIVE SumCounts(_, _)
SumCounts(counts, names) ==
    IF names = {} THEN 0
    ELSE LET n == CHOOSE x \in names : TRUE
         IN  counts[n] + SumCounts(counts, names \ {n})

\* C27: getStats returns totalPosts equal to the number of records, per-origin
\* counts that sum to totalPosts, postsLast24h <= postsLastWeek <= totalPosts,
\* and lastUpdated equal to the greatest fetched_at, null exactly when the
\* collection is empty.
C27_StatsConsistent ==
    last.op = "getStats" =>
        LET st == last.ret
        IN  /\ st.totalPosts = Len(posts)
            /\ SumCounts(st.subredditCounts, DOMAIN st.subredditCounts) = st.totalPosts
            /\ st.postsLast24h <= st.postsLastWeek
            /\ st.postsLastWeek <= st.totalPosts
            /\ (st.lastUpdated = Null) <=> (Len(posts) = 0)
            /\ Len(posts) > 0 =>
                  /\ \E i \in 1..Len(posts) : st.lastUpdated = [ms |-> posts[i].fetched_at]
                  /\ \A i \in 1..Len(posts) : posts[i].fetched_at <= st.lastUpdated.ms

\* Statistics over three records of three ages, fetched on two different days.
C27_Witness ==
    /\ last.op = "getStats" /\ last.at = 1
    /\ last.ret.totalPosts = 3
    /\ last.ret.postsLastWeek = 2
    /\ last.ret.postsLast24h = 1
    /\ posts[1].fetched_at = 0
    /\ last.ret.lastUpdated = [ms |-> 1]


\* The fields every stored record has.
RecordFields ==
    {"id", "reddit_id", "title", "content", "author", "subreddit", "upvotes",
     "num_comments", "created_at", "fetched_at", "url"}

WellFormedList(ps) ==
    /\ ps \in Seq({ps[i] : i \in 1..Len(ps)})
    /\ \A i \in 1..Len(ps) : DOMAIN ps[i] \ {"updated_at"} = RecordFields

C25_WriteFailureContained ==
    [][/\ Calls("upsertPost") =>
            /\ \E i \in 1..Len(posts') : posts'[i] = last'.ret
            /\ last'.saves = 1
            /\ disk = "ok" => file' = FileOf(posts')
       /\ (Calls("deleteOldPosts") /\ last'.saves = 1 /\ disk = "ok") =>
            file' = FileOf(posts')]_vars

\* An upsert whose write failed: the record is in the collection and not in
\* the file, which holds less than the collection.
C25_Witness ==
    /\ last.op = "upsertPost" /\ disk = "full"
    /\ Len(posts) = 2 /\ posts[2] = last.ret
    /\ file # FileOf(posts)


\* C28: after a termination signal has been received the process eventually
\* terminates, by the exit of the server.close callback or by the forced exit
\* at the end of the grace period, whatever cycle or connection is pending.
C28_SignalLeadsToExit ==
    (proc.state = "shutting") ~> (proc.state = "exited")

\* The forced exit has ended the process with a cycle still in flight.
C28_Witness ==
    /\ proc.state = "exited" /\ proc.code = 1
    /\ InFlight > 0

\* C30: once gracefulShutdown has run, the poll timer starts no further
\* aggregation cycle, also when the signal came while the startup cycle was
\* in flight and the interval was not yet created.
C30_NoCycleAfterShutdown ==
    proc.late = 0


\* C29: on every connection of the web terminal a PTY is spawned only when an
\* 'auth' message with the correct token is handled on that connection; no
\* 'input' or 'resize' message is forwarded to a PTY before the connection
\* has authenticated; an 'auth' message with a wrong token is answered with
\* 'failed' and the connection is closed without a PTY being spawned.
C29_PtyOnlyAfterAuth ==
    [][\A c \in Conns :
          LET a == term[c]
              b == term'[c]
              handled == b # a /\ a.ready # "none" /\ b.ready # "closed"
          IN  /\ b.spawned > a.spawned =>
                    b.msg.type = "auth" /\ b.msg.token = AUTH_TOKEN
              /\ b.spawned > 0 => b.authenticated
              /\ (handled /\ b.wrote # "none") =>
                    a.authenticated /\ b.msg.type \in {"input", "resize"}
              /\ (handled /\ b.msg.type \in {"input", "resize"} /\ ~a.authenticated) =>
                    b.wrote = "none" /\ b.reply = "error"
              /\ (handled /\ b.msg.type = "auth" /\ b.msg.token # AUTH_TOKEN) =>
                    /\ b.reply = "auth failed"
                    /\ b.ready = "closing"
                    /\ b.spawned = a.spawned /\ b.pty = a.pty]_vars

\* One connection has authenticated and had its input forwarded to its PTY;
\* the other sent a wrong token and is closing without a PTY.
C29_Witness ==
    /\ term["c1"].authenticated /\ term["c1"].spawned = 1
    /\ term["c1"].wrote = "input"
    /\ term["c2"].msg = [type |-> "auth", token |-> "guess"]
    /\ term["c2"].ready = "closing" /\ term["c2"].reply = "auth failed"
    /\ term["c2"].pty = "null" /\ ~term["c2"].authenticated


\* C31: a cycle run against the same source responses as the cycle before it
\* leaves the number of records in the store unchanged.
C31_SecondCycleAddsNothing ==
    (last.op = "fetchAllPosts" /\ last.again) => Len(posts) = last.before


\* C32: a file write that fails inside a scheduled job (the daily report, the
\* log file) is contained: it never terminates the process.
C32_ScheduledWriteFailureContained ==
    proc.state # "exited"


\* C33: within a multi-query adapter, the fixed delay of the adapter elapses
\* between any two consecutive sub-query requests, also when the earlier one
\* failed.
C33_DelayBetweenSubQueries ==
    (loop.phase = "requesting" /\ loop.q > 1) => loop.gap = DelayMs(loop.adapter)


\* C34: every started cycle eventually completes when every request is
\* answered or times out: fetchAllPosts returns.
C34_CycleCompletes ==
    (fetch.phase = "running") ~> (fetch.phase = "done")

\* A cycle has returned after one target used all its attempts and a query of
\* an adapter failed.
C34_Witness ==
    /\ fetch.phase = "done"
    /\ \E s \in Targets : retry[s].attempt = Retries /\ ~retry[s].ok /\ retry[s].phase = "returned"
    /\ fetch.units["hn1"].state = "failed"


C36_SortedPermutation ==
    last.op = "getPosts" =>
        LET o == last.arg
            list == last.ret.posts
            passed == FilterPosts(posts, last.at, o)
            Key(p) == IF o.sortBy = "upvotes" THEN p.upvotes
                      ELSE IF o.sortBy = "num_comments" THEN p.num_comments
                      ELSE p.created_at
        IN  /\ \A i, j \in 1..Len(list) :
                 i < j => IF o.sortOrder = "desc" THEN Key(list[i]) >= Key(list[j])
                          ELSE Key(list[i]) <= Key(list[j])
            /\ Len(list) = Len(passed)
            /\ \A p \in {passed[i] : i \in 1..Len(passed)} :
                 Cardinality({i \in 1..Len(list) : list[i] = p})
                     = Cardinality({i \in 1..Len(passed) : passed[i] = p})

\* Three records were listed by an unrecognised key in an unrecognised order,
\* and the order differs from the one they are stored in.
C36_Witness ==
    /\ last.op = "getPosts"
    /\ last.arg.sortBy = "title"
    /\ last.arg.sortOrder = "newest"
    /\ Len(last.ret.posts) = 3
    /\ last.ret.posts # posts


\* C37: whatever page and limit a request to GET /api/posts carries, it is
\* answered successfully, the page size handed to the store is a positive
\* integer of at most 100 and the page number handed to it is at least 1.
C37_PageAndLimitClamped ==
    last.op = "GET /api/posts" =>
        /\ last.status = 200
        /\ last.limit \in {Num(n) : n \in 1..LimitCap}
        /\ last.page # NaN
        /\ last.page.num >= 1


\* C38: on every connection of the web terminal at most one PTY process
\* exists at any time, and once the connection has closed every PTY spawned
\* for it has been killed.
C38_OnePtyPerConnection ==
    \A c \in Conns :
        /\ term[c].spawned - term[c].killed <= 1
        /\ term[c].ready = "closed" => term[c].killed = term[c].spawned


\* C39: once no request of the dashboard is in flight (and the last one did
\* not fail), the posts and the pagination shown are the server's answer for
\* the parameters selected now.
C39_ShownMatchesSelection ==
    (client.mounted /\ client.inflight = <<>> /\ ~client.error)
        => client.shown = client.params

====
